---- MODULE Spec2Model ----
(***************************************************************************)
(* Model of the MIDNAM structural merge / DTD normalisation / save engine  *)
(* of server.py (class MIDINameHandler).                                    *)
(*                                                                         *)
(* An XML element is a record [tag, a, kids]: its tag, the tuple of its    *)
(* attribute values (all strings, in a fixed order per tag) and the tuple  *)
(* of its child elements.  Python element identity is modelled by          *)
(* position: every operation that the code does on "that node" is done    *)
(* here on the index of the node among its siblings.                       *)
(***************************************************************************)
EXTENDS Integers, Sequences, FiniteSets, TLC

VARIABLES
    tree,       \* the in-memory document (root element) being rewritten
    tree0,      \* the document as it was before the last step
    midnam,     \* the payload of the last merge
    stage,      \* position in the load / merge / normalise pipeline
    fixes,      \* fix count returned by the last normalisation pass
    disk,       \* the document file on disk
    backups,    \* the backup files of the document, keyed by timestamp
    now,        \* wall clock, in ticks
    log,        \* one entry per request handled: what it saw and did
    out,        \* what the last request produced: the body of the answer
                \* to a read, the text written by a save
    requests    \* the save requests in progress when handlers interleave:
                \* for each its position and what it holds in memory

vars == <<tree, tree0, midnam, stage, fixes, disk, backups, now, log, out, requests>>

pipeVars == <<tree, tree0, midnam, stage, fixes>>
fsVars == <<disk, backups, now, log, out, requests>>

(***************************************************************************)
(* Elements                                                                *)
(***************************************************************************)
E(tag, a, kids) == [tag |-> tag, a |-> a, kids |-> kids]

\* elem.get('Name') for the tags whose first attribute is Name
NameOf(e) == e.a[1]

\* [c for c in elem if c.tag == t]  /  elem.findall(t)
findall(e, t) == SelectSeq(e.kids, LAMBDA c : c.tag = t)

\* indices of the direct children of e with tag t
IdxOf(kids, t) == {i \in 1..Len(kids) : kids[i].tag = t}

Min(S) == CHOOSE x \in S : \A y \in S : x <= y
Max(S) == CHOOSE x \in S : \A y \in S : x >= y

\* the sequence s without the positions in R
RemoveAt(s, R) ==
    LET keep == {i \in 1..Len(s) : i \notin R}
        RECURSIVE build(_)
        build(i) == IF i > Len(s) THEN <<>>
                    ELSE (IF i \in keep THEN <<s[i]>> ELSE <<>>) \o build(i + 1)
    IN build(1)

\* list.insert(idx0, x) with a 0-based index
InsertAt(s, idx0, x) == SubSeq(s, 1, idx0) \o <<x>> \o SubSeq(s, idx0 + 1, Len(s))

RECURSIVE Concat(_)
Concat(ss) == IF ss = <<>> THEN <<>> ELSE Head(ss) \o Concat(Tail(ss))

RECURSIVE SumSeq(_)
SumSeq(s) == IF s = <<>> THEN 0 ELSE Head(s) + SumSeq(Tail(s))

(***************************************************************************)
(* _ensure_dtd_compliance                                                  *)
(***************************************************************************)
NoteRefTags == {"NoteNameList", "UsesNoteNameList"}
ControlRefTags == {"ControlNameList", "UsesControlNameList"}

\* lines 435-463: the children re-appended in DTD order, note references
\* cut down to the first one
dtd_order_swapped(available_for_channels, note_refs, control_refs, patch_banks, other) ==
    available_for_channels
        \o (IF Len(note_refs) > 1 THEN SubSeq(note_refs, 1, 1) ELSE note_refs)
        \o patch_banks \o control_refs \o other

dtd_order(available_for_channels, note_refs, control_refs, patch_banks, other) ==
    available_for_channels
        \o (IF Len(note_refs) > 1 THEN SubSeq(note_refs, 1, 1) ELSE note_refs)
        \o control_refs \o patch_banks \o other

\* lines 414-425: a note or control reference stands after the first PatchBank
needs_reorder(children) ==
    /\ Len(children) > 0
    /\ IdxOf(children, "PatchBank") # {}
    /\ \E i \in 1..Len(children) : children[i].tag \in NoteRefTags \cup ControlRefTags
    /\ LET first_patch_bank_idx == Min(IdxOf(children, "PatchBank"))
       IN \E i \in 1..Len(children) :
              /\ children[i].tag \in NoteRefTags \cup ControlRefTags
              /\ i > first_patch_bank_idx

\* a reorder that cuts the control references down to one as well
fix_channel_name_set_cutting(channel_name_set) ==
    LET note_lists_in_cns == findall(channel_name_set, "NoteNameList")
        children == SelectSeq(channel_name_set.kids, LAMBDA c : c.tag # "NoteNameList")
        available_for_channels ==
            SelectSeq(children, LAMBDA c : c.tag = "AvailableForChannels")
        note_or_control_refs ==
            SelectSeq(children, LAMBDA c : c.tag \in NoteRefTags \cup ControlRefTags)
        patch_banks == SelectSeq(children, LAMBDA c : c.tag = "PatchBank")
        other ==
            SelectSeq(children, LAMBDA c :
                c.tag \notin {"AvailableForChannels", "PatchBank"}
                             \cup NoteRefTags \cup ControlRefTags)
        note_refs == SelectSeq(note_or_control_refs, LAMBDA c : c.tag \in NoteRefTags)
        all_control_refs ==
            SelectSeq(note_or_control_refs, LAMBDA c : c.tag \in ControlRefTags)
        control_refs == IF Len(all_control_refs) > 1 THEN SubSeq(all_control_refs, 1, 1)
                        ELSE all_control_refs
    IN [cns   |-> [channel_name_set EXCEPT
                      !.kids = IF needs_reorder(children)
                               THEN dtd_order(available_for_channels, note_refs,
                                              control_refs, patch_banks, other)
                               ELSE children],
        moved |-> note_lists_in_cns,
        fixes |-> (IF Len(note_lists_in_cns) > 0 THEN 1 ELSE 0)
                  + (IF needs_reorder(children) THEN 1 ELSE 0)
                  + (IF needs_reorder(children) /\ Len(note_refs) > 1 THEN 1 ELSE 0)]

\* The body of the loop over the ChannelNameSets of one MasterDeviceNames:
\* the rewritten ChannelNameSet, the NoteNameLists handed to the device
\* record and the number of entries appended to fixes_applied.
fix_channel_name_set(channel_name_set) ==
    LET note_lists_in_cns == findall(channel_name_set, "NoteNameList")
        children == SelectSeq(channel_name_set.kids, LAMBDA c : c.tag # "NoteNameList")
        available_for_channels ==
            SelectSeq(children, LAMBDA c : c.tag = "AvailableForChannels")
        note_or_control_refs ==
            SelectSeq(children, LAMBDA c : c.tag \in NoteRefTags \cup ControlRefTags)
        patch_banks == SelectSeq(children, LAMBDA c : c.tag = "PatchBank")
        other ==
            SelectSeq(children, LAMBDA c :
                c.tag \notin {"AvailableForChannels", "PatchBank"}
                             \cup NoteRefTags \cup ControlRefTags)
        note_refs == SelectSeq(note_or_control_refs, LAMBDA c : c.tag \in NoteRefTags)
        control_refs == SelectSeq(note_or_control_refs, LAMBDA c : c.tag \in ControlRefTags)
    IN [cns   |-> [channel_name_set EXCEPT
                      !.kids = IF needs_reorder(children)
                               THEN dtd_order(available_for_channels, note_refs,
                                              control_refs, patch_banks, other)
                               ELSE children],
        moved |-> note_lists_in_cns,
        fixes |-> (IF Len(note_lists_in_cns) > 0 THEN 1 ELSE 0)
                  + (IF needs_reorder(children) THEN 1 ELSE 0)
                  + (IF needs_reorder(children) /\ Len(note_refs) > 1 THEN 1 ELSE 0)]

\* a hoist that detaches the lists and never re-attaches them
fix_master_device_dropping(master_device) ==
    LET r == [i \in 1..Len(master_device.kids) |->
                 IF master_device.kids[i].tag = "ChannelNameSet"
                 THEN fix_channel_name_set(master_device.kids[i])
                 ELSE [cns |-> master_device.kids[i], moved |-> <<>>, fixes |-> 0]]
    IN [dev   |-> [master_device EXCEPT !.kids = [i \in 1..Len(r) |-> r[i].cns]],
        fixes |-> SumSeq([i \in 1..Len(r) |-> r[i].fixes])]

\* One MasterDeviceNames: every ChannelNameSet fixed in place, the moved
\* NoteNameLists appended to the device record in the order they were met.
fix_master_device(master_device) ==
    LET r == [i \in 1..Len(master_device.kids) |->
                 IF master_device.kids[i].tag = "ChannelNameSet"
                 THEN fix_channel_name_set(master_device.kids[i])
                 ELSE [cns |-> master_device.kids[i], moved |-> <<>>, fixes |-> 0]]
    IN [dev   |-> [master_device EXCEPT
                      !.kids = [i \in 1..Len(r) |-> r[i].cns]
                               \o Concat([i \in 1..Len(r) |-> r[i].moved])],
        fixes |-> SumSeq([i \in 1..Len(r) |-> r[i].fixes])]

\* _ensure_dtd_compliance(root): the rewritten root and len(fixes_applied)
ensure_dtd_compliance(root) ==
    LET r == [i \in 1..Len(root.kids) |->
                 IF root.kids[i].tag = "MasterDeviceNames"
                 THEN fix_master_device(root.kids[i])
                 ELSE [dev |-> root.kids[i], fixes |-> 0]]
    IN [root  |-> [root EXCEPT !.kids = [i \in 1..Len(r) |-> r[i].dev]],
        fixes |-> SumSeq([i \in 1..Len(r) |-> r[i].fixes])]

(***************************************************************************)
(* The payload ("midnam") of save_midnam_structure.  A JSON object is a    *)
(* record with a field keys (the keys present) next to the values; a value *)
(* whose key is absent is never read.                                      *)
(***************************************************************************)
\* str() of the small integers that occur in payloads
Str(n) == CASE n = 0 -> "0" [] n = 1 -> "1" [] n = 2 -> "2" [] n = 3 -> "3"
            [] n = 4 -> "4" [] n = 5 -> "5" [] n = 6 -> "6" [] n = 7 -> "7"
            [] n = 8 -> "8" [] n = 9 -> "9" [] OTHER -> "10"

\* _create_patch_bank: the new PatchBank element (the caller appends it)
create_patch_bank(frontend_bank) ==
    LET ccs == SelectSeq(frontend_bank.midi_commands,
                         LAMBDA cmd : cmd.type = "ControlChange")
        midi_commands_elem ==
            E("MIDICommands", <<>>,
              [k \in 1..Len(ccs) |->
                  E("ControlChange", <<Str(ccs[k].control), Str(ccs[k].value)>>, <<>>)])
        patch_name_list ==
            E("PatchNameList", <<>>,
              [k \in 1..Len(frontend_bank.patch) |->
                  E("Patch", <<frontend_bank.patch[k].name,
                               frontend_bank.patch[k].Number,
                               Str(frontend_bank.patch[k].programChange)>>, <<>>)])
    IN E("PatchBank", <<frontend_bank.name>>,
         (IF frontend_bank.midi_commands # <<>> THEN <<midi_commands_elem>> ELSE <<>>)
            \o <<patch_name_list>>)

\* a rewrite that appends the incoming channels without clearing the block
update_available_channels_keeping(channel_name_set, frontend_name_set) ==
    IF ~frontend_name_set.has_available_channels THEN channel_name_set
    ELSE LET channels ==
                 [k \in 1..Len(frontend_name_set.available_channels) |->
                     E("AvailableChannel",
                       <<Str(frontend_name_set.available_channels[k].channel),
                         IF frontend_name_set.available_channels[k].available
                         THEN "true" ELSE "false">>, <<>>)]
             found == IdxOf(channel_name_set.kids, "AvailableForChannels")
         IN IF found = {}
            THEN [channel_name_set EXCEPT
                     !.kids = Append(@, E("AvailableForChannels", <<>>, channels))]
            ELSE [channel_name_set EXCEPT
                     !.kids[Min(found)] =
                         E("AvailableForChannels", <<>>, @.kids \o channels)]

\* lines 537-552: rewrite the AvailableForChannels block of one ChannelNameSet
update_available_channels(channel_name_set, frontend_name_set) ==
    IF ~frontend_name_set.has_available_channels THEN channel_name_set
    ELSE LET channels ==
                 [k \in 1..Len(frontend_name_set.available_channels) |->
                     E("AvailableChannel",
                       <<Str(frontend_name_set.available_channels[k].channel),
                         IF frontend_name_set.available_channels[k].available
                         THEN "true" ELSE "false">>, <<>>)]
             found == IdxOf(channel_name_set.kids, "AvailableForChannels")
         IN IF found = {}
            THEN [channel_name_set EXCEPT
                     !.kids = Append(@, E("AvailableForChannels", <<>>, channels))]
            ELSE [channel_name_set EXCEPT
                     !.kids[Min(found)] = E("AvailableForChannels", <<>>, channels)]

\* existing_name_sets[name]: a dict comprehension keeps the LAST node of a name
existing_name_set(kids, name) ==
    Max({i \in IdxOf(kids, "ChannelNameSet") : NameOf(kids[i]) = name})

\* lines 516-552
merge_channel_name_sets(master_device, p) ==
    IF "channelNameSets" \notin p.keys THEN master_device
    ELSE
    LET kids0 == master_device.kids
        existing_names == {NameOf(kids0[i]) : i \in IdxOf(kids0, "ChannelNameSet")}
        frontend_names ==
            {p.channelNameSets[j].name : j \in 1..Len(p.channelNameSets)}
        removed == {existing_name_set(kids0, n) : n \in existing_names \ frontend_names}
        kids1 == RemoveAt(kids0, removed)
        RECURSIVE update(_, _)
        update(kids, j) ==
            IF j > Len(p.channelNameSets) THEN kids
            ELSE LET f == p.channelNameSets[j]
                 IN IF f.name \in existing_names
                    THEN LET i == existing_name_set(kids1, f.name)
                         IN update([kids EXCEPT
                                       ![i] = update_available_channels(kids[i], f)],
                                   j + 1)
                    ELSE update(Append(kids,
                                   update_available_channels(
                                       E("ChannelNameSet", <<f.name>>, <<>>), f)),
                                j + 1)
    IN [master_device EXCEPT !.kids = update(kids1, 1)]

\* a rewrite that appends the payload banks without discarding the old ones
merge_patch_list_appending(master_device, p) ==
    IF "patchList" \notin p.keys THEN master_device
    ELSE
    LET banks_by_nameset(n) ==
            SelectSeq(p.patchList,
                      LAMBDA bank : bank.channelNameSet # "" /\ bank.channelNameSet = n)
        kids1 == SelectSeq(master_device.kids, LAMBDA b : b.tag # "PatchBank")
        rebuilt(channel_name_set) ==
            LET frontend_banks == banks_by_nameset(NameOf(channel_name_set))
            IN [channel_name_set EXCEPT
                   !.kids = @ \o [j \in 1..Len(frontend_banks) |->
                                     create_patch_bank(frontend_banks[j])]]
    IN [master_device EXCEPT
           !.kids = [i \in 1..Len(kids1) |->
                        IF kids1[i].tag = "ChannelNameSet"
                        THEN rebuilt(kids1[i]) ELSE kids1[i]]]

\* lines 557-593
merge_patch_list(master_device, p) ==
    IF "patchList" \notin p.keys THEN master_device
    ELSE
    LET banks_by_nameset(n) ==
            SelectSeq(p.patchList,
                      LAMBDA bank : bank.channelNameSet # "" /\ bank.channelNameSet = n)
        kids1 == SelectSeq(master_device.kids, LAMBDA b : b.tag # "PatchBank")
        rebuilt(channel_name_set) ==
            LET frontend_banks == banks_by_nameset(NameOf(channel_name_set))
            IN [channel_name_set EXCEPT
                   !.kids = SelectSeq(@, LAMBDA b : b.tag # "PatchBank")
                            \o [j \in 1..Len(frontend_banks) |->
                                   create_patch_bank(frontend_banks[j])]]
    IN [master_device EXCEPT
           !.kids = [i \in 1..Len(kids1) |->
                        IF kids1[i].tag = "ChannelNameSet"
                        THEN rebuilt(kids1[i]) ELSE kids1[i]]]

\* lines 597-617
merge_note_lists(master_device, p) ==
    IF "note_lists" \notin p.keys THEN master_device
    ELSE [master_device EXCEPT
             !.kids = SelectSeq(@, LAMBDA c : c.tag # "NoteNameList")
                      \o [j \in 1..Len(p.note_lists) |->
                             E("NoteNameList", <<p.note_lists[j].name>>,
                               [k \in 1..Len(p.note_lists[j].notes) |->
                                   E("Note", <<Str(p.note_lists[j].notes[k].number),
                                               p.note_lists[j].notes[k].name>>, <<>>)])]]

\* lines 622-643
merge_control_lists(master_device, p) ==
    IF "control_lists" \notin p.keys THEN master_device
    ELSE [master_device EXCEPT
             !.kids = SelectSeq(@, LAMBDA c : c.tag # "ControlNameList")
                      \o [j \in 1..Len(p.control_lists) |->
                             E("ControlNameList", <<p.control_lists[j].name>>,
                               [k \in 1..Len(p.control_lists[j].controls) |->
                                   E("Control",
                                     <<p.control_lists[j].controls[k].type,
                                       Str(p.control_lists[j].controls[k].number),
                                       p.control_lists[j].controls[k].name>>, <<>>)])]]

\* lines 646-666: find() returns the FIRST UsesControlNameList only
merge_active_control_list(master_device, p) ==
    IF ~("activeControlListName" \in p.keys /\ p.activeControlListName # "")
    THEN master_device
    ELSE
    LET uses_control_elem == E("UsesControlNameList", <<p.activeControlListName>>, <<>>)
        rewired(channel_name_set) ==
            LET existing_uses == IdxOf(channel_name_set.kids, "UsesControlNameList")
                kids1 == IF existing_uses = {} THEN channel_name_set.kids
                         ELSE RemoveAt(channel_name_set.kids, {Min(existing_uses)})
                available_for_channels == IdxOf(kids1, "AvailableForChannels")
                insert_index == IF available_for_channels = {} THEN 0
                                ELSE (Min(available_for_channels) - 1) + 1
            IN [channel_name_set EXCEPT
                   !.kids = InsertAt(kids1, insert_index, uses_control_elem)]
    IN [master_device EXCEPT
           !.kids = [i \in 1..Len(@) |->
                        IF @[i].tag = "ChannelNameSet" THEN rewired(@[i]) ELSE @[i]]]

\* an insertion index whose scan does not stop at the first CustomDeviceMode
standard_mode_insert_index_unbroken(kids1) ==
    IF IdxOf(kids1, "Model") = {} THEN 0 ELSE (Max(IdxOf(kids1, "Model")) - 1) + 1

\* lines 683-689: the scan for the insertion index, 0-based
standard_mode_insert_index(kids1) ==
    LET \* children scanned before the break at the first CustomDeviceMode
        stop == IF IdxOf(kids1, "CustomDeviceMode") = {} THEN Len(kids1) + 1
                ELSE Min(IdxOf(kids1, "CustomDeviceMode"))
        models == {i \in IdxOf(kids1, "Model") : i < stop}
    IN IF models = {} THEN 0 ELSE (Max(models) - 1) + 1

\* a rewrite that leaves the old SupportsStandardDeviceMode elements
merge_standard_device_mode_keeping(master_device, p) ==
    LET kids1 == master_device.kids
        enabled == "supportsStandardDeviceMode" \in p.keys
                       /\ p.supportsStandardDeviceMode
        standard_mode_name == IF "standardDeviceModeName" \in p.keys
                              THEN p.standardDeviceModeName ELSE "General MIDI"
    IN [master_device EXCEPT
           !.kids = IF enabled
                    THEN InsertAt(kids1, standard_mode_insert_index(kids1),
                             E("SupportsStandardDeviceMode", <<standard_mode_name>>, <<>>))
                    ELSE kids1]

\* lines 669-693: the removal is unconditional
merge_standard_device_mode(master_device, p) ==
    LET kids1 == SelectSeq(master_device.kids,
                           LAMBDA c : c.tag # "SupportsStandardDeviceMode")
        enabled == "supportsStandardDeviceMode" \in p.keys
                       /\ p.supportsStandardDeviceMode
        standard_mode_name == IF "standardDeviceModeName" \in p.keys
                              THEN p.standardDeviceModeName ELSE "General MIDI"
    IN [master_device EXCEPT
           !.kids = IF enabled
                    THEN InsertAt(kids1, standard_mode_insert_index(kids1),
                             E("SupportsStandardDeviceMode", <<standard_mode_name>>, <<>>))
                    ELSE kids1]

\* lines 512-693 on one MasterDeviceNames (the four loops of the handler
\* each visit every MasterDeviceNames and touch only the one they visit)
merge_master_device(master_device, p) ==
    merge_standard_device_mode(
      merge_active_control_list(
        merge_control_lists(
          merge_note_lists(
            merge_patch_list(
              merge_channel_name_sets(master_device, p), p), p), p), p), p)

\* lines 512-693: root.findall('.//MasterDeviceNames') is every device record
merge_structure(root, p) ==
    [root EXCEPT
        !.kids = [i \in 1..Len(@) |->
                     IF @[i].tag = "MasterDeviceNames"
                     THEN merge_master_device(@[i], p) ELSE @[i]]]

(***************************************************************************)
(* Idle values of the variables a specification does not use               *)
(***************************************************************************)
NoTree == E("", <<>>, <<>>)

NoPayload ==
    [keys |-> {}, channelNameSets |-> <<>>, patchList |-> <<>>, note_lists |-> <<>>,
     control_lists |-> <<>>, activeControlListName |-> "",
     supportsStandardDeviceMode |-> FALSE, standardDeviceModeName |-> ""]

NoFile == [st |-> "absent", decl |-> "", doctype |-> "", root |-> NoTree]

PipeIdle == tree = NoTree /\ tree0 = NoTree /\ midnam = NoPayload
                /\ stage = "idle" /\ fixes = <<>>
NoOut == [handler |-> "", status |-> 0]

NoRequests == <<>>

FsIdle == disk = NoFile /\ backups = {} /\ now = 0 /\ log = <<>> /\ out = NoOut
              /\ requests = NoRequests

SeqsUpTo(S, n) == UNION {[1..k -> S] : k \in 0..n}

(***************************************************************************)
(* Normalisation on its own: a document, then two passes in a row          *)
(***************************************************************************)
MaxCnsKids == 4

AFC1 == E("AvailableForChannels", <<>>, <<E("AvailableChannel", <<"1", "true">>, <<>>)>>)
Bank(n) == E("PatchBank", <<n>>,
             <<E("PatchNameList", <<>>, <<E("Patch", <<"Default Patch", "0", "0">>, <<>>)>>)>>)
NoteList(n) == E("NoteNameList", <<n>>, <<E("Note", <<"36", "Kick">>, <<>>)>>)
ControlList(n) == E("ControlNameList", <<n>>, <<E("Control", <<"7bit", "7", "Volume">>, <<>>)>>)
UsesNote(n) == E("UsesNoteNameList", <<n>>, <<>>)
UsesControl(n) == E("UsesControlNameList", <<n>>, <<>>)
ModelElem == E("Model", <<>>, <<>>)
Cns(n, kids) == E("ChannelNameSet", <<n>>, kids)
Device(kids) == E("MasterDeviceNames", <<>>, kids)
Document(devices) == E("MIDINameDocument", <<>>, devices)

NormCnsKids ==
    {AFC1, UsesNote("N1"), UsesNote("N2"), NoteList("L1"), UsesControl("C1"),
     Bank("B1"), E("Extra", <<>>, <<>>)}

\* what follows the first ChannelNameSet in the device record
NormTails ==
    {<<>>,
     <<Cns("Set B", <<Bank("B2"), NoteList("L2"), UsesNote("N1"), NoteList("L3")>>),
       ControlList("K1")>>}

NormDocs ==
    {Document(<<Device(<<ModelElem>> \o <<Cns("Set A", s)>> \o t)>>) :
        s \in SeqsUpTo(NormCnsKids, MaxCnsKids), t \in NormTails}

InitNormalize ==
    /\ tree \in NormDocs
    /\ tree0 = tree
    /\ midnam = NoPayload
    /\ stage = "loaded"
    /\ fixes = <<>>
    /\ FsIdle

\* one call of _ensure_dtd_compliance on the in-memory document
NormalizePass ==
    /\ stage \in {"loaded", "pass1"}
    /\ tree0' = tree
    /\ tree' = ensure_dtd_compliance(tree).root
    /\ fixes' = Append(fixes, ensure_dtd_compliance(tree).fixes)
    /\ stage' = IF stage = "loaded" THEN "pass1" ELSE "pass2"
    /\ UNCHANGED <<midnam, fsVars>>

NextNormalize == NormalizePass

SpecNormalize == InitNormalize /\ [][NextNormalize]_vars

\* the ChannelNameSets of a document, over all its device records
ChannelNameSets(root) ==
    Concat([i \in 1..Len(root.kids) |-> findall(root.kids[i], "ChannelNameSet")])

\* the NoteNameLists found directly inside the ChannelNameSets of a device
NestedNoteLists(master_device) ==
    Concat([i \in 1..Len(master_device.kids) |->
               IF master_device.kids[i].tag = "ChannelNameSet"
               THEN findall(master_device.kids[i], "NoteNameList") ELSE <<>>])

\* C4: a second normalisation pass directly after a first one returns zero
\* fixes and leaves the tree exactly as the first pass left it.
C4_NormalizeIdempotent ==
    stage = "pass2" => fixes[2] = 0 /\ tree = tree0

C4_Witness ==
    stage = "pass2" /\ fixes[1] >= 3

\* C5: after normalisation no ChannelNameSet has more than one direct child
\* whose tag is NoteNameList or UsesNoteNameList.
C5_AtMostOneNoteRef ==
    stage = "pass1" =>
        \A i \in 1..Len(ChannelNameSets(tree)) :
            Cardinality({k \in 1..Len(ChannelNameSets(tree)[i].kids) :
                            ChannelNameSets(tree)[i].kids[k].tag \in NoteRefTags}) <= 1

\* C6: after one pass every NoteNameList that was a direct child of a
\* ChannelNameSet is a direct child of the device record, appended at its
\* end in the order met, and no ChannelNameSet holds a NoteNameList.
C6_NoteListsHoisted ==
    stage = "pass1" =>
        /\ Len(tree.kids) = Len(tree0.kids)
        /\ \A d \in 1..Len(tree0.kids) :
              tree0.kids[d].tag = "MasterDeviceNames" =>
                 LET old == tree0.kids[d]
                     new == tree.kids[d]
                 IN /\ Len(new.kids) = Len(old.kids) + Len(NestedNoteLists(old))
                    /\ SubSeq(new.kids, Len(old.kids) + 1, Len(new.kids))
                          = NestedNoteLists(old)
                    /\ \A i \in 1..Len(old.kids) : new.kids[i].tag = old.kids[i].tag
                    /\ NestedNoteLists(new) = <<>>

C6_Witness ==
    /\ stage = "pass1"
    /\ Len(NestedNoteLists(tree0.kids[1])) >= 3
    /\ Len(findall(tree.kids[1], "NoteNameList")) >= 3

(***************************************************************************)
(* The merge: a loaded document, then lines 512-699 applied with one       *)
(* payload                                                                 *)
(***************************************************************************)
MaxSets == 2          \* ChannelNameSets in the loaded device record
MaxPayloadSets == 2   \* entries of the payload's channelNameSets

StandardMode(n) == E("SupportsStandardDeviceMode", <<n>>, <<>>)
CustomMode == E("CustomDeviceMode", <<"Mode 1">>, <<>>)
AFC2 == E("AvailableForChannels", <<>>,
          <<E("AvailableChannel", <<"1", "false">>, <<>>),
            E("AvailableChannel", <<"2", "true">>, <<>>)>>)

\* the ChannelNameSets a loaded device record is made of; two carry the
\* same Name, one holds a NoteNameList, one has a reference after its bank
MergeCnsPool ==
    {Cns("Set A", <<AFC1, UsesControl("C1"), Bank("Old 1"), Bank("Old 2")>>),
     Cns("Set A", <<UsesNote("N1"), NoteList("LN"), UsesControl("C1"), UsesControl("C2")>>),
     Cns("Set B", <<AFC2, Bank("Old 3"), UsesControl("C3"), E("Extra", <<>>, <<>>)>>)}

MergeHeads ==
    {<<>>,
     <<ModelElem, CustomMode>>,
     <<StandardMode("GM"), ModelElem, ModelElem, CustomMode, ModelElem>>}

MergeTails ==
    {<<>>,
     <<NoteList("L1"), ControlList("K1"), NoteList("L2")>>,
     <<Bank("Stray"), StandardMode("GS"), ControlList("K2")>>}

SecondDevice ==
    Device(<<ModelElem, StandardMode("XG"),
             Cns("Set A", <<AFC2, UsesControl("C2"), Bank("Old 4")>>),
             NoteList("L3"), ControlList("K3")>>)

MergeDocs ==
    {Document(<<Device(h \o s \o t)>>) :
        h \in MergeHeads, s \in SeqsUpTo(MergeCnsPool, MaxSets), t \in MergeTails}
    \cup {Document(<<Device(s), SecondDevice>>) : s \in SeqsUpTo(MergeCnsPool, MaxSets)}

\* payload values
Chan(c, av) == [channel |-> c, available |-> av]
NameSetEntry(n, has, chans) ==
    [name |-> n, has_available_channels |-> has, available_channels |-> chans]
PatchEntry(n, num, pc) == [name |-> n, Number |-> num, programChange |-> pc]
BankEntry(n, set, cmds, patches) ==
    [name |-> n, channelNameSet |-> set, midi_commands |-> cmds, patch |-> patches]
CC(c, v) == [type |-> "ControlChange", control |-> c, value |-> v]

NameSetEntries ==
    {NameSetEntry("Set A", TRUE, <<Chan(1, TRUE), Chan(2, FALSE)>>),
     NameSetEntry("Set B", FALSE, <<>>),
     NameSetEntry("Set C", TRUE, <<Chan(3, TRUE)>>),
     NameSetEntry("Set A", TRUE, <<Chan(5, FALSE)>>),
     NameSetEntry("Set C", FALSE, <<>>)}

PatchLists ==
    {<<>>,
     <<BankEntry("Patches", "Set A", <<>>, <<PatchEntry("New Patch", "1", 1)>>)>>,
     <<BankEntry("Bank 1", "Set A", <<CC(0, 1), CC(2, 3)>>,
                 <<PatchEntry("P1", "0", 0), PatchEntry("P2", "1", 5)>>),
       BankEntry("Bank 2", "Set C", <<>>, <<>>),
       BankEntry("Bank 3", "Set A", <<>>, <<PatchEntry("P3", "2", 2)>>)>>,
     <<BankEntry("Bank 4", "Set Z", <<>>, <<PatchEntry("P4", "0", 0)>>),
       BankEntry("Bank 5", "Set B", <<CC(0, 0)>>, <<PatchEntry("P5", "7", 7)>>)>>}

NoteLists ==
    {<<>>,
     <<[name |-> "Drums", notes |-> <<[number |-> 3, name |-> "Kick"],
                                      [number |-> 1, name |-> "Snare"]>>],
       [name |-> "LN", notes |-> <<>>]>>}

ControlLists ==
    {<<[name |-> "Controls",
        controls |-> <<[type |-> "7bit", number |-> 7, name |-> "Volume"]>>]>>}

Payload(keys, sets, banks, notes, controls, active, std, stdName) ==
    [keys |-> keys, channelNameSets |-> sets, patchList |-> banks,
     note_lists |-> notes, control_lists |-> controls,
     activeControlListName |-> active, supportsStandardDeviceMode |-> std,
     standardDeviceModeName |-> stdName]

\* optional value: the key with each of the values, or no key at all
Opt(key, values, none) ==
    {[keys |-> {key}, v |-> x] : x \in values} \cup {[keys |-> {}, v |-> none]}

\* payloads that exercise the ChannelNameSet and PatchBank sections, the
\* other sections all absent or all present
SetPayloads ==
    {Payload(s.keys \cup b.keys \cup r, s.v, b.v,
             <<>>, CHOOSE c \in ControlLists : TRUE, "Controls", TRUE, "")
       : s \in Opt("channelNameSets", SeqsUpTo(NameSetEntries, MaxPayloadSets), <<>>),
         b \in Opt("patchList", PatchLists, <<>>),
         r \in {{}, {"note_lists", "control_lists", "activeControlListName",
                     "supportsStandardDeviceMode"}}}

\* payloads that exercise the list, reference and device-mode sections
ListPayloads ==
    {Payload(s.keys \cup b.keys \cup n.keys \cup c.keys \cup a.keys \cup m.keys
                \cup mn.keys,
             s.v, b.v, n.v, c.v, a.v, m.v, mn.v)
       : s \in Opt("channelNameSets",
                   {<<NameSetEntry("Set B", TRUE, <<Chan(4, TRUE)>>)>>}, <<>>),
         b \in Opt("patchList",
                   {<<BankEntry("Bank 6", "Set B", <<>>, <<PatchEntry("P6", "3", 3)>>)>>},
                   <<>>),
         n \in Opt("note_lists", NoteLists, <<>>),
         c \in Opt("control_lists", ControlLists, <<>>),
         a \in Opt("activeControlListName", {"", "Controls"}, ""),
         m \in Opt("supportsStandardDeviceMode", {TRUE, FALSE}, FALSE),
         mn \in Opt("standardDeviceModeName", {"GM2"}, "")}

\* save_midnam_structure rejects an empty payload (line 488)
Payloads == {p \in SetPayloads \cup ListPayloads : p.keys # {}}

InitMerge ==
    /\ tree \in MergeDocs
    /\ tree0 = tree
    /\ midnam = NoPayload
    /\ stage = "loaded"
    /\ fixes = <<>>
    /\ FsIdle

\* lines 512-699 of save_midnam_structure on the loaded document: the merge
\* and the normalisation that follows it
MergeStructure ==
    /\ stage = "loaded"
    /\ \E p \in Payloads :
          LET merged == ensure_dtd_compliance(merge_structure(tree, p))
          IN /\ midnam' = p
             /\ tree' = merged.root
             /\ fixes' = <<merged.fixes>>
    /\ tree0' = tree
    /\ stage' = "merged"
    /\ UNCHANGED fsVars

NextMerge == MergeStructure

SpecMerge == InitMerge /\ [][NextMerge]_vars

\* positions of the device records of a document
DeviceIdx(root) == IdxOf(root.kids, "MasterDeviceNames")

\* the Names of the ChannelNameSets of a device record
SetNames(master_device) ==
    {NameOf(master_device.kids[i]) : i \in IdxOf(master_device.kids, "ChannelNameSet")}

\* the ChannelNameSets of a device record that carry the Name n
SetsNamed(master_device, n) ==
    SelectSeq(master_device.kids, LAMBDA c : c.tag = "ChannelNameSet" /\ NameOf(c) = n)

PayloadSetNames(p) == {p.channelNameSets[j].name : j \in 1..Len(p.channelNameSets)}

\* C1: after a merge whose payload has a channelNameSets section, the set of
\* ChannelNameSet Names under the device record equals exactly the set of
\* names listed in the payload, for every starting document.
C1_NameSetsArePayloadNames ==
    (stage = "merged" /\ "channelNameSets" \in midnam.keys) =>
        \A d \in DeviceIdx(tree) : SetNames(tree.kids[d]) = PayloadSetNames(midnam)

\* the Patch elements of a PatchBank, as attribute tuples
PatchesOf(bank) ==
    Concat([i \in 1..Len(bank.kids) |->
               IF bank.kids[i].tag = "PatchNameList"
               THEN [k \in 1..Len(findall(bank.kids[i], "Patch")) |->
                        findall(bank.kids[i], "Patch")[k].a]
               ELSE <<>>])

\* the payload banks that name the channel name set n
PayloadBanksOf(p, n) == SelectSeq(p.patchList, LAMBDA b : b.channelNameSet = n)

\* C2: after a merge whose payload has a patchList section, the direct
\* PatchBank children of every ChannelNameSet of the device record are
\* exactly the payload banks that name it, one PatchBank with one
\* PatchNameList per entry, in payload order, each holding exactly the
\* entry's patches (Name, Number, ProgramChange) in payload order; a set
\* with no payload entry has no PatchBank.
C2_BanksArePayloadBanks ==
    (stage = "merged" /\ "patchList" \in midnam.keys) =>
        \A d \in DeviceIdx(tree) :
            \A i \in IdxOf(tree.kids[d].kids, "ChannelNameSet") :
                LET set == tree.kids[d].kids[i]
                    banks == findall(set, "PatchBank")
                    wanted == PayloadBanksOf(midnam, NameOf(set))
                IN /\ Len(banks) = Len(wanted)
                   /\ \A j \in 1..Len(banks) :
                         /\ NameOf(banks[j]) = wanted[j].name
                         /\ Len(findall(banks[j], "PatchNameList")) = 1
                         /\ Len(PatchesOf(banks[j])) = Len(wanted[j].patch)
                         /\ \A k \in 1..Len(wanted[j].patch) :
                               PatchesOf(banks[j])[k] =
                                   <<wanted[j].patch[k].name, wanted[j].patch[k].Number,
                                     Str(wanted[j].patch[k].programChange)>>

\* a set that held two old banks now holds the payload's two banks for it
C2_Witness ==
    /\ stage = "merged" /\ "patchList" \in midnam.keys
    /\ \E i \in IdxOf(tree0.kids[1].kids, "ChannelNameSet") :
          /\ Len(findall(tree0.kids[1].kids[i], "PatchBank")) = 2
          /\ NameOf(tree0.kids[1].kids[i]) = "Set A"
    /\ \E i \in IdxOf(tree.kids[1].kids, "ChannelNameSet") :
          /\ Len(findall(tree.kids[1].kids[i], "PatchBank")) = 2
          /\ PatchesOf(findall(tree.kids[1].kids[i], "PatchBank")[1])
                = <<<<"P1", "0", "0">>, <<"P2", "1", "5">>>>
    /\ \E i \in IdxOf(tree.kids[1].kids, "ChannelNameSet") :
          findall(tree.kids[1].kids[i], "PatchBank") = <<>>

\* the part of a ChannelNameSet named by a tag, for the sets that can be
\* told apart by Name before and after the merge
SetPartUntouched(old, new, t) ==
    \A n \in SetNames(old) \cap SetNames(new) :
        (Len(SetsNamed(old, n)) = 1 /\ Len(SetsNamed(new, n)) = 1) =>
            findall(SetsNamed(new, n)[1], t) = findall(SetsNamed(old, n)[1], t)

\* the ChannelNameSet elements of a device with their availability blocks
SetsAndAvailability(master_device) ==
    [i \in 1..Len(findall(master_device, "ChannelNameSet")) |->
        <<NameOf(findall(master_device, "ChannelNameSet")[i]),
          findall(findall(master_device, "ChannelNameSet")[i], "AvailableForChannels")>>]

SectionUntouched(key, old, new) ==
    CASE key = "channelNameSets" -> SetsAndAvailability(new) = SetsAndAvailability(old)
      [] key = "patchList" ->
            /\ findall(new, "PatchBank") = findall(old, "PatchBank")
            /\ SetPartUntouched(old, new, "PatchBank")
      [] key = "note_lists" -> findall(new, "NoteNameList") = findall(old, "NoteNameList")
      [] key = "control_lists" ->
            findall(new, "ControlNameList") = findall(old, "ControlNameList")
      [] key = "activeControlListName" ->
            SetPartUntouched(old, new, "UsesControlNameList")
      [] key = "supportsStandardDeviceMode" ->
            findall(new, "SupportsStandardDeviceMode")
                = findall(old, "SupportsStandardDeviceMode")

SectionKeys ==
    {"channelNameSets", "patchList", "note_lists", "control_lists",
     "activeControlListName", "supportsStandardDeviceMode"}

\* C3: for each of the six sections, when its key is absent from the payload
\* the corresponding part of the document is the same after the merge as
\* before it.
C3_AbsentSectionUntouched ==
    stage = "merged" =>
        \A key \in SectionKeys : key \notin midnam.keys =>
            \A d \in DeviceIdx(tree0) :
                SectionUntouched(key, tree0.kids[d], tree.kids[d])

\* what does hold of the code: the four sections other than the device
\* mode and the note lists (the normalisation moves a NoteNameList out of a
\* ChannelNameSet to the device record whatever the payload holds)
C3_OtherSectionsUntouched ==
    stage = "merged" =>
        \A key \in SectionKeys \ {"supportsStandardDeviceMode", "note_lists"} :
            key \notin midnam.keys =>
                \A d \in DeviceIdx(tree0) :
                    SectionUntouched(key, tree0.kids[d], tree.kids[d])

(***************************************************************************)
(* save_patch: the rewrite of one Patch and of its note list               *)
(* (lines 181-245).  A path <<d, i, j>> names the child j of the child i   *)
(* of the device record d, or the child i itself when j = 0.               *)
(***************************************************************************)
\* the first of the elements of the sequence s at the positions hits, or
\* <<>> when there is none (a for loop left by break)
FirstHit(s, hits) == IF hits = {} THEN <<>> ELSE s[Min(hits)]

\* root.findall('.//' + t), in document order, as paths
PathsTo(root, t) ==
    Concat([d \in 1..Len(root.kids) |->
        IF root.kids[d].tag # "MasterDeviceNames" THEN <<>>
        ELSE Concat([i \in 1..Len(root.kids[d].kids) |->
                 IF root.kids[d].kids[i].tag = t THEN <<<<d, i, 0>>>>
                 ELSE LET inner == root.kids[d].kids[i].kids
                      IN SelectSeq([j \in 1..Len(inner) |-> <<d, i, j>>],
                                   LAMBDA q : inner[q[3]].tag = t)])])

At(root, path) ==
    IF path[3] = 0 THEN root.kids[path[1]].kids[path[2]]
    ELSE root.kids[path[1]].kids[path[2]].kids[path[3]]

Put(root, path, e) ==
    IF path[3] = 0 THEN [root EXCEPT !.kids[path[1]].kids[path[2]] = e]
    ELSE [root EXCEPT !.kids[path[1]].kids[path[2]].kids[path[3]] = e]

\* bank.findall('.//Patch'): positions <<k, m>> of the Patch elements in the
\* children of the bank's children
PatchPositions(bank) ==
    Concat([k \in 1..Len(bank.kids) |->
        SelectSeq([m \in 1..Len(bank.kids[k].kids) |-> <<k, m>>],
                  LAMBDA q : bank.kids[k].kids[q[2]].tag = "Patch")])

\* lines 183-187: the first bank of that Name holding a Patch of that Name
find_patch(root, patch_bank, patch_name_to_find) ==
    LET hit(bank) ==
            LET pp == PatchPositions(bank)
            IN FirstHit(pp, {i \in 1..Len(pp) :
                               NameOf(bank.kids[pp[i][1]].kids[pp[i][2]])
                                  = patch_name_to_find})
        banks == PathsTo(root, "PatchBank")
        path == FirstHit(banks, {i \in 1..Len(banks) :
                                   /\ NameOf(At(root, banks[i])) = patch_bank
                                   /\ hit(At(root, banks[i])) # <<>>})
    IN IF path = <<>> THEN <<>> ELSE <<path, hit(At(root, path))>>

\* lines 189-208: Name, Number and the UsesNoteNameList of the Patch
update_patch_elem(patch_elem, r, actual_note_list_name) ==
    LET renamed == [patch_elem EXCEPT
                       !.a[1] = IF r.patch_name # "" THEN r.patch_name ELSE @,
                       !.a[2] = IF r.patch_number # "" THEN r.patch_number ELSE @]
        uses == IdxOf(renamed.kids, "UsesNoteNameList")
    IN IF actual_note_list_name # "" /\ r.notes # <<>>
       THEN IF uses = {}
            THEN [renamed EXCEPT
                     !.kids = Append(@, E("UsesNoteNameList",
                                          <<actual_note_list_name>>, <<>>))]
            ELSE [renamed EXCEPT !.kids[Min(uses)].a = <<actual_note_list_name>>]
       ELSE renamed

\* lines 231-239: the Notes of the list replaced by the request's notes
replace_notes(note_list_elem, notes) ==
    [note_list_elem EXCEPT
        !.kids = SelectSeq(@, LAMBDA c : c.tag # "Note")
                 \o [k \in 1..Len(notes) |->
                        E("Note", <<Str(notes[k].number), notes[k].name>>, <<>>)]]

\* lines 210-241: the note list found anywhere by Name, or created inside a
\* CustomNoteNameList container of the first MasterDeviceNames
update_note_list(root, actual_note_list_name, notes) ==
    LET lists == PathsTo(root, "NoteNameList")
        found == FirstHit(lists, {i \in 1..Len(lists) :
                                    NameOf(At(root, lists[i])) = actual_note_list_name})
        devices == IdxOf(root.kids, "MasterDeviceNames")
        d == Min(devices)
        containers == IdxOf(root.kids[d].kids, "CustomNoteNameList")
        fresh == replace_notes(E("NoteNameList", <<actual_note_list_name>>, <<>>), notes)
    IN IF found # <<>> THEN Put(root, found, replace_notes(At(root, found), notes))
       ELSE IF devices = {} THEN root
       ELSE IF containers = {}
            THEN [root EXCEPT
                     !.kids[d].kids = Append(@, E("CustomNoteNameList", <<>>, <<fresh>>))]
            ELSE [root EXCEPT
                     !.kids[d].kids[Min(containers)].kids = Append(@, fresh)]

\* lines 181-245 on a document in which the patch was found at `where`
update_patch(root, r, where) ==
    LET bank == At(root, where[1])
        k == where[2][1]
        m == where[2][2]
        patch_elem == bank.kids[k].kids[m]
        uses == IdxOf(patch_elem.kids, "UsesNoteNameList")
        actual_note_list_name ==
            IF r.note_list_name # "" THEN r.note_list_name
            ELSE IF uses # {} THEN NameOf(patch_elem.kids[Min(uses)]) ELSE ""
        root1 == Put(root, where[1],
                     [bank EXCEPT !.kids[k].kids[m] =
                         update_patch_elem(patch_elem, r, actual_note_list_name)])
    IN IF actual_note_list_name # "" /\ r.notes # <<>>
       THEN update_note_list(root1, actual_note_list_name, r.notes)
       ELSE root1

(***************************************************************************)
(* Files, backups and the three save handlers                              *)
(***************************************************************************)
XmlDeclaration == "<?xml version=\"1.0\" encoding=\"UTF-8\"?>"
TreeWriteDeclaration == "<?xml version='1.0' encoding='utf-8'?>"
DefaultDoctype ==
    "<!DOCTYPE MIDINameDocument PUBLIC \"-//MIDI Manufacturers Association//DTD MIDINameDocument 1.0//EN\" \"http://www.midi.org/dtds/MIDINameDocument10.dtd\">"
CustomDoctype == "<!DOCTYPE MIDINameDocument SYSTEM \"MIDINameDocument10.dtd\">"
IndentedDoctype == "  <!DOCTYPE MIDINameDocument SYSTEM \"MIDINameDocument10.dtd\">  "

\* a well-formed file: its declaration, its first line holding '<!DOCTYPE'
\* ("" when there is none) and the tree it parses to
File(decl, doctype, root) == [st |-> "ok", decl |-> decl, doctype |-> doctype, root |-> root]
\* a file that is not well-formed XML
MalformedFile == [st |-> "malformed", decl |-> "", doctype |-> "", root |-> NoTree]
\* what tree.write leaves when serialisation raises half-way: the
\* declaration and a prefix of the tree
PartialFile == [st |-> "partial", decl |-> TreeWriteDeclaration, doctype |-> "",
                root |-> NoTree]

\* line.strip()
Strip(line) == IF line = IndentedDoctype THEN CustomDoctype ELSE line

\* lines 506-510
doctype_line(file) == Strip(file.doctype)

\* the clock has ticks of half a second; strftime("%Y-%m-%d-%H-%M-%S")
\* keeps the whole seconds
TicksPerSecond == 2
Stamp(t) == t \div TicksPerSecond

\* shutil.copy(file_path, backup_name): the backup of that name is created
\* or overwritten
copy(bks, t, content) ==
    {b \in bks : b.ts # Stamp(t)} \cup {[ts |-> Stamp(t), content |-> content]}

\* a save that backs up what it has just written
write_then_copy(file, bks, t, new) ==
    [disk |-> new, backups |-> copy(bks, t, new)]

\* lines 701-723 (and 96-104, 257-267): backup, then overwrite
copy_then_write(file, bks, t, new) ==
    [disk |-> new, backups |-> copy(bks, t, file)]

Outcome(status, file, bks, io, backup) ==
    [status |-> status, disk |-> file, backups |-> bks, io |-> io, backup |-> backup]

\* a classification that looks at the file system before the request
save_midnam_structure_status_fs_first(r, file) ==
    IF file.st = "absent" THEN 404
    ELSE IF file.st # "ok" THEN 422
    ELSE IF ~r.has_file_path \/ r.midnam.keys = {} THEN 400
    ELSE IF ~r.strings_ok THEN 500
    ELSE 200

\* lines 488-499 and 736-743: the answer of save_midnam_structure.  An
\* absent and an empty midnam are both falsy; a payload name that is not a
\* JSON string makes ET.tostring raise (line 706).
save_midnam_structure_status(r, file) ==
    IF ~r.has_file_path \/ r.midnam.keys = {} THEN 400
    ELSE IF file.st = "absent" THEN 404
    ELSE IF file.st # "ok" THEN 422
    ELSE IF ~r.strings_ok THEN 500
    ELSE 200

\* lines 472-743
save_midnam_structure(r, file, bks, t) ==
    LET status == save_midnam_structure_status(r, file)
        root == ensure_dtd_compliance(merge_structure(file.root, r.midnam)).root
        full_xml == File(XmlDeclaration,
                         IF doctype_line(file) = "" THEN DefaultDoctype
                         ELSE doctype_line(file),
                         root)
        saved == copy_then_write(file, bks, t, full_xml)
    IN CASE status = 400 -> Outcome(400, file, bks, <<>>, -1)
         [] status = 404 -> Outcome(404, file, bks, <<"exists">>, -1)
         [] status = 422 -> Outcome(422, file, bks, <<"exists", "parse">>, -1)
         [] status = 500 -> Outcome(500, file, copy(bks, t, file),
                                    <<"exists", "parse", "read", "copy">>, -1)
         [] OTHER -> Outcome(200, saved.disk, saved.backups,
                             <<"exists", "parse", "read", "copy", "write">>, Stamp(t))

\* lines 118-280.  get_patch_files lists only the files that parse, so a
\* device whose file is not well-formed is not found.  A patch number that
\* is a JSON number is stored as it is (line 193) and makes tree.write
\* raise after it has opened and begun the file (line 267).
save_patch(r, file, bks, t) ==
    LET patch_name_to_find == IF r.original_patch_name # ""
                              THEN r.original_patch_name ELSE r.patch_name
        where == find_patch(file.root, r.patch_bank, patch_name_to_find)
        root == ensure_dtd_compliance(update_patch(file.root, r, where)).root
        serializable == r.patch_number = "" \/ r.number_is_str
        written == IF serializable THEN File(TreeWriteDeclaration, "", root)
                   ELSE PartialFile
        saved == copy_then_write(file, bks, t, written)
    IN IF ~r.has_device_id \/ ~r.has_patch
       THEN Outcome(400, file, bks, <<>>, -1)
       ELSE IF ~(r.device_known /\ file.st = "ok")
       THEN Outcome(404, file, bks, <<"scan">>, -1)
       ELSE IF where = <<>>
       THEN Outcome(404, file, bks, <<"scan", "exists", "parse">>, -1)
       ELSE Outcome(IF serializable THEN 200 ELSE 500, saved.disk, saved.backups,
                    <<"scan", "exists", "parse", "copy", "write">>,
                    IF serializable THEN Stamp(t) ELSE -1)

\* lines 81-116: shutil.copy raises when the file does not exist
save_file(r, file, bks, t) ==
    LET saved == copy_then_write(file, bks, t, r.xml_content)
    IN IF ~r.has_file_path \/ r.xml_content.st = "absent"
       THEN Outcome(400, file, bks, <<>>, -1)
       ELSE IF file.st = "absent"
       THEN Outcome(500, file, bks, <<"copy">>, -1)
       ELSE Outcome(200, saved.disk, saved.backups, <<"copy", "write">>, Stamp(t))

(***************************************************************************)
(* The server: one document on disk, requests handled one at a time        *)
(* (socketserver.TCPServer), the clock advancing between them              *)
(***************************************************************************)
MaxRequests == 2
MaxTime == 2

DocA ==
    Document(<<Device(<<ModelElem,
                        Cns("Set A", <<Bank("Old 1"), AFC1, UsesNote("N1"), NoteList("L1")>>),
                        NoteList("L2")>>)>>)
DocB ==
    Document(<<Device(<<Cns("Set B", <<AFC2, Bank("Old 3")>>), Bank("Old 1")>>),
               SecondDevice>>)

SaveFiles ==
    {NoFile, MalformedFile,
     File(XmlDeclaration, IndentedDoctype, DocA),
     File(TreeWriteDeclaration, "", DocB)}

SavePayloads ==
    {NoPayload,
     Payload({"channelNameSets", "patchList"},
             <<NameSetEntry("Set A", TRUE, <<Chan(1, TRUE)>>)>>,
             <<BankEntry("Patches", "Set A", <<>>, <<PatchEntry("New Patch", "1", 1)>>)>>,
             <<>>, <<>>, "", FALSE, ""),
     Payload({"note_lists", "supportsStandardDeviceMode"}, <<>>, <<>>,
             <<[name |-> "Drums", notes |-> <<[number |-> 3, name |-> "Kick"]>>]>>,
             <<>>, "", TRUE, "")}

StructureRequests ==
    [has_file_path : BOOLEAN, midnam : SavePayloads, strings_ok : BOOLEAN]

PatchRequest(id, has, known, bank, orig, name, number, isStr, list, notes) ==
    [has_device_id |-> id, has_patch |-> has, device_known |-> known,
     patch_bank |-> bank, original_patch_name |-> orig, patch_name |-> name,
     patch_number |-> number, number_is_str |-> isStr, note_list_name |-> list,
     notes |-> notes]

PatchRequests ==
    {PatchRequest(FALSE, TRUE, TRUE, "Old 1", "", "Default Patch", "", TRUE, "", <<>>),
     PatchRequest(TRUE, FALSE, TRUE, "Old 1", "", "", "", TRUE, "", <<>>),
     PatchRequest(TRUE, TRUE, FALSE, "Old 1", "", "Default Patch", "", TRUE, "", <<>>),
     PatchRequest(TRUE, TRUE, TRUE, "Nope", "", "Default Patch", "5", TRUE, "", <<>>)}
    \cup
    {PatchRequest(TRUE, TRUE, TRUE, "Old 1", orig, "Renamed", number[1], number[2],
                  list, <<[number |-> 3, name |-> "Kick"]>>)
       : orig \in {"Default Patch", ""},
         number \in {<<"", TRUE>>, <<"5", TRUE>>, <<"5", FALSE>>},
         list \in {"", "L2", "Fresh"}}

FileRequests ==
    [has_file_path : BOOLEAN,
     xml_content : {NoFile, MalformedFile, File(XmlDeclaration, CustomDoctype, DocB)}]

\* what a request saw and did
Entry(handler, missing, o) ==
    [handler |-> handler, missing |-> missing, status |-> o.status,
     backup |-> o.backup, io |-> o.io, at |-> now, pre |-> disk,
     preBackups |-> backups]

InitSave ==
    /\ disk \in SaveFiles
    /\ backups = {}
    /\ now = 0
    /\ log = <<>>
    /\ out = NoOut
    /\ requests = NoRequests
    /\ PipeIdle

Handle(handler, missing, o) ==
    /\ disk' = o.disk
    /\ backups' = o.backups
    /\ log' = Append(log, Entry(handler, missing, o))
    /\ UNCHANGED <<now, out, requests, pipeVars>>

SaveMidnamStructure ==
    /\ Len(log) < MaxRequests
    /\ \E r \in StructureRequests :
          Handle("save_midnam_structure", ~r.has_file_path \/ r.midnam.keys = {},
                 save_midnam_structure(r, disk, backups, now))

SavePatch ==
    /\ Len(log) < MaxRequests
    /\ \E r \in PatchRequests :
          Handle("save_patch", ~r.has_device_id \/ ~r.has_patch,
                 save_patch(r, disk, backups, now))

SaveFile ==
    /\ Len(log) < MaxRequests
    /\ \E r \in FileRequests :
          Handle("save_file", ~r.has_file_path \/ r.xml_content.st = "absent",
                 save_file(r, disk, backups, now))

Tick ==
    /\ now < MaxTime
    /\ now' = now + 1
    /\ UNCHANGED <<disk, backups, log, out, requests, pipeVars>>

NextSave == SaveMidnamStructure \/ SavePatch \/ SaveFile \/ Tick

SpecSave == InitSave /\ [][NextSave]_vars

\* the document and the backups as request k left them
DiskAfter(k) == IF k = Len(log) THEN disk ELSE log[k + 1].pre
BackupsAfter(k) == IF k = Len(log) THEN backups ELSE log[k + 1].preBackups

\* C7: at the end of every request to save_midnam_structure or save_patch
\* the document on disk either has exactly the content it had before the
\* request (every error answer) or is the complete new document (every
\* success answer).
C7_NoPartialFile ==
    \A k \in 1..Len(log) :
        log[k].handler \in {"save_midnam_structure", "save_patch"} =>
            IF log[k].status = 200 THEN DiskAfter(k).st = "ok"
            ELSE DiskAfter(k) = log[k].pre

\* C8: save_midnam_structure answers 400 to a request without file_path or
\* midnam, with no file system access at all; otherwise 404 when the path
\* does not exist; otherwise 422 when the file is not well-formed; in none
\* of the three cases is a backup created or the document written.
C8_BadRequestsClassified ==
    \A k \in 1..Len(log) :
        log[k].handler = "save_midnam_structure" =>
            /\ log[k].missing => log[k].status = 400 /\ log[k].io = <<>>
            /\ (~log[k].missing /\ log[k].pre.st = "absent") => log[k].status = 404
            /\ (~log[k].missing /\ log[k].pre.st \in {"malformed", "partial"})
                  => log[k].status = 422
            /\ log[k].status \in {400, 404, 422} =>
                  /\ DiskAfter(k) = log[k].pre
                  /\ BackupsAfter(k) = log[k].preBackups
                  /\ \A n \in 1..Len(log[k].io) : log[k].io[n] \notin {"copy", "write"}

\* save_file has stored content that is not well-formed (and backed up the
\* document), then a complete request to save_midnam_structure is answered 422
C8_Witness ==
    /\ Len(log) = 2
    /\ log[1].handler = "save_file" /\ log[1].status = 200
    /\ log[2].handler = "save_midnam_structure" /\ log[2].status = 422
    /\ backups # {}

\* C9: every overwrite of the document by one of the three save handlers
\* comes, in the same request, after the creation of the backup named by
\* the request's timestamp, which holds the content the document had just
\* before the overwrite; a success answer returns that backup's name.
C9_BackupBeforeOverwrite ==
    \A k \in 1..Len(log) :
        (DiskAfter(k) # log[k].pre
            \/ \E n \in 1..Len(log[k].io) : log[k].io[n] = "write") =>
            /\ \E m, n \in 1..Len(log[k].io) :
                  m < n /\ log[k].io[m] = "copy" /\ log[k].io[n] = "write"
            /\ [ts |-> Stamp(log[k].at), content |-> log[k].pre] \in BackupsAfter(k)
            /\ log[k].status = 200 => log[k].backup = Stamp(log[k].at)

\* two overwrites within the same second, by different handlers
C9_Witness ==
    /\ Len(log) = 2
    /\ log[1].handler = "save_midnam_structure" /\ log[1].status = 200
    /\ log[2].handler = "save_patch" /\ log[2].status = 200
    /\ log[1].backup = log[2].backup
    /\ disk # log[2].pre /\ log[2].pre # log[1].pre

\* C10: two successive saves of the document leave two distinct backup
\* files, each still holding the content the document had just before the
\* save that created it, whatever the timing of the two saves.
C10_TwoDistinctBackups ==
    \A i, j \in 1..Len(log) :
        (/\ i < j
         /\ log[i].handler = "save_midnam_structure" /\ log[i].status = 200
         /\ log[j].handler = "save_midnam_structure" /\ log[j].status = 200) =>
            /\ log[i].backup # log[j].backup
            /\ [ts |-> log[i].backup, content |-> log[i].pre] \in backups
            /\ [ts |-> log[j].backup, content |-> log[j].pre] \in backups

(***************************************************************************)
(* Reading a document back: reload_midnam and serve_device_details         *)
(***************************************************************************)
\* what elem.get(name) returns for an attribute that is not there
None == "<None>"

\* the names of the attributes of a tag, in the order of the tuple a; an
\* attribute is absent when the tuple is too short or holds None there.
\* _create_patch_bank writes a ControlChange with 'control' and 'value'
\* (lines 342-343); the MIDNAM form of the element has 'Control' and 'Value'.
AttrNames(tag) ==
    CASE tag = "Patch" -> <<"Name", "Number", "ProgramChange">>
      [] tag = "AvailableChannel" -> <<"Channel", "Available">>
      [] tag = "ControlChange" -> <<"control", "value", "Control", "Value">>
      [] tag = "ProgramChange" -> <<"Number">>
      [] tag = "Note" -> <<"Number", "Name">>
      [] tag = "Control" -> <<"Type", "Number", "Name">>
      [] OTHER -> <<"Name">>

\* elem.get(name, default)
get(e, name, default) ==
    LET at == {i \in 1..Len(AttrNames(e.tag)) : AttrNames(e.tag)[i] = name}
    IN IF at = {} THEN default
       ELSE IF Min(at) > Len(e.a) THEN default
       ELSE IF e.a[Min(at)] = None THEN default
       ELSE e.a[Min(at)]

\* elem.find(t): the first direct child with that tag, or NoTree
find(e, t) == IF IdxOf(e.kids, t) = {} THEN NoTree ELSE e.kids[Min(IdxOf(e.kids, t))]

\* elem.findall('.//' + t): the descendants with that tag, in document order
RECURSIVE Descendants(_, _)
Descendants(e, t) ==
    Concat([i \in 1..Len(e.kids) |->
               (IF e.kids[i].tag = t THEN <<e.kids[i]>> ELSE <<>>)
               \o Descendants(e.kids[i], t)])

\* s.isdigit() and int(s), for the numbers that Str writes
isdigit(s) == \E n \in 0..10 : Str(n) = s
int(s) == CHOOSE n \in 0..10 : Str(n) = s

\* 'true' / 'false' .lower() == 'true'
IsTrue(s) == s = "true"

\* extract_device_info: a MIDINameDocument whose first MasterDeviceNames
\* has a Manufacturer and a Model
extract_device_info(root_elem) ==
    /\ root_elem.tag = "MIDINameDocument"
    /\ Descendants(root_elem, "MasterDeviceNames") # <<>>
    /\ LET master_device == Descendants(root_elem, "MasterDeviceNames")[1]
       IN /\ find(master_device, "Manufacturer") # NoTree
          /\ findall(master_device, "Model") # <<>>

\* lines 875-894: one Patch as reload_midnam reads it
reload_patch(patch) ==
    LET attribute == get(patch, "ProgramChange", "")
        patch_midi_cmds == find(patch, "PatchMIDICommands")
        pc_elem == find(patch_midi_cmds, "ProgramChange")
        program_change ==
            IF attribute # "" THEN attribute
            ELSE IF patch_midi_cmds # NoTree /\ pc_elem # NoTree
                 THEN get(pc_elem, "Number", "")
                 ELSE attribute
    IN [name |-> get(patch, "Name", ""),
        Number |-> get(patch, "Number", ""),
        programChange |-> IF isdigit(program_change) THEN int(program_change) ELSE 0,
        note_list_name |-> IF find(patch, "UsesNoteNameList") # NoTree
                           THEN get(find(patch, "UsesNoteNameList"), "Name", None)
                           ELSE None]

\* lines 856-900: one PatchBank as reload_midnam reads it
reload_bank(bank) ==
    LET midi_cmds_elem == find(bank, "MIDICommands")
        ccs == IF midi_cmds_elem = NoTree THEN <<>>
               ELSE findall(midi_cmds_elem, "ControlChange")
        patch_name_list == find(bank, "PatchNameList")
        patches == IF patch_name_list = NoTree THEN <<>>
                   ELSE findall(patch_name_list, "Patch")
    IN [name |-> get(bank, "Name", "Unnamed Bank"),
        midi_commands |-> [k \in 1..Len(ccs) |->
                              [type |-> "ControlChange",
                               control |-> get(ccs[k], "Control", None),
                               value |-> get(ccs[k], "Value", None)]],
        patches |-> [k \in 1..Len(patches) |-> reload_patch(patches[k])]]

\* lines 838-906
reload_channel_name_sets(root_elem) ==
    LET sets == Descendants(root_elem, "ChannelNameSet")
    IN [i \in 1..Len(sets) |->
          LET acs == Descendants(sets[i], "AvailableChannel")
              banks == findall(sets[i], "PatchBank")
          IN [name |-> get(sets[i], "Name", "Default"),
              available_channels |->
                  [k \in 1..Len(acs) |->
                      [channel |-> get(acs[k], "Channel", None),
                       available |-> IsTrue(get(acs[k], "Available", "true"))]],
              patch_banks |-> [k \in 1..Len(banks) |-> reload_bank(banks[k])]]]

\* lines 745-930: the answer of reload_midnam for the document at file_path
reload_midnam(has_file_path, file) ==
    IF ~has_file_path THEN [handler |-> "reload_midnam", status |-> 400]
    ELSE IF file.st = "absent" THEN [handler |-> "reload_midnam", status |-> 404]
    ELSE IF file.st # "ok" THEN [handler |-> "reload_midnam", status |-> 422]
    ELSE IF ~extract_device_info(file.root)
         THEN [handler |-> "reload_midnam", status |-> 500]
    ELSE [handler |-> "reload_midnam", status |-> 200,
          channel_name_sets |-> reload_channel_name_sets(file.root)]

\* lines 1312-1336: one Patch as serve_device_details reads it
serve_patch(patch) ==
    LET attribute == get(patch, "ProgramChange", "0")
        patch_midi_cmds == find(patch, "PatchMIDICommands")
        pc_elem == find(patch_midi_cmds, "ProgramChange")
        uses == Descendants(patch, "UsesNoteNameList")
    IN [name |-> get(patch, "Name", "Unnamed"),
        Number |-> get(patch, "Number", "0"),
        programChange |->
            IF (attribute = "" \/ attribute = "0")
                  /\ patch_midi_cmds # NoTree /\ pc_elem # NoTree
            THEN get(pc_elem, "Number", "0")
            ELSE attribute,
        note_list_name |-> IF uses # <<>> THEN get(uses[1], "Name", "") ELSE ""]

\* lines 1286-1343: one PatchBank that has children
serve_bank(bank) ==
    LET midi_commands_elem == find(bank, "MIDICommands")
        ccs == IF midi_commands_elem = NoTree THEN <<>>
               ELSE Descendants(midi_commands_elem, "ControlChange")
        bank_patches == Descendants(bank, "Patch")
    IN [name |-> get(bank, "Name", "Unnamed Bank"),
        midi_commands |-> [k \in 1..Len(ccs) |->
                              [type |-> "ControlChange",
                               control |-> get(ccs[k], "control", get(ccs[k], "Control", "")),
                               value |-> get(ccs[k], "value", get(ccs[k], "Value", ""))]],
        patches |-> [k \in 1..Len(bank_patches) |-> serve_patch(bank_patches[k])]]

\* lines 1266-1349: empty PatchBank references are skipped
serve_channel_name_sets(root_elem) ==
    LET sets == Descendants(root_elem, "ChannelNameSet")
    IN [i \in 1..Len(sets) |->
          LET acs == Descendants(sets[i], "AvailableChannel")
              banks == SelectSeq(findall(sets[i], "PatchBank"), LAMBDA b : b.kids # <<>>)
          IN [name |-> get(sets[i], "Name", "Unnamed Name Set"),
              available_channels |->
                  [k \in 1..Len(acs) |->
                      [channel |-> get(acs[k], "Channel", ""),
                       available |-> IsTrue(get(acs[k], "Available", "false"))]],
              patch_banks |-> [k \in 1..Len(banks) |-> serve_bank(banks[k])]]]

\* lines 1153-1387: get_manufacturers_data lists the devices of the files
\* that parse and have device information
serve_device_details(device_id_matches, file) ==
    IF ~(device_id_matches /\ file.st = "ok" /\ extract_device_info(file.root))
    THEN [handler |-> "serve_device_details", status |-> 404]
    ELSE [handler |-> "serve_device_details", status |-> 200,
          channel_name_sets |-> serve_channel_name_sets(file.root)]

(***************************************************************************)
(* The text of the file written by save_midnam_structure, line by line     *)
(***************************************************************************)
\* one line of text: a declaration or DOCTYPE (its text in tag), the open
\* tag, close tag or empty-element tag of an element at some depth of
\* tab indentation, or a line of white space only
Line(kind, depth, tag, a) == [kind |-> kind, depth |-> depth, tag |-> tag, a |-> a]
BlankLine == Line("blank", 0, "", <<>>)

\* line 709: dom.toprettyxml(indent='\t').  The white space between the
\* elements of a loaded file that was indented comes back as text nodes,
\* each printed on lines of its own.
RECURSIVE writexml(_, _, _)
writexml(e, depth, indented) ==
    IF e.kids = <<>> THEN <<Line("empty", depth, e.tag, e.a)>>
    ELSE <<Line("open", depth, e.tag, e.a)>>
         \o (IF indented THEN <<BlankLine>> ELSE <<>>)
         \o Concat([i \in 1..Len(e.kids) |->
                       writexml(e.kids[i], depth + 1, indented)
                       \o (IF indented THEN <<BlankLine>> ELSE <<>>)])
         \o <<Line("close", depth, e.tag, <<>>)>>

toprettyxml(root, indented) ==
    <<Line("decl", 0, "<?xml version=\"1.0\" ?>", <<>>)>> \o writexml(root, 0, indented)

\* lines 712-713: the lines that are not blank, without the first
pretty_xml(root, indented) ==
    Tail(SelectSeq(toprettyxml(root, indented), LAMBDA line : line.kind # "blank"))

\* lines 715-719: both doctype_line values end with a newline, and one more
\* newline is put between the DOCTYPE and the tree
full_xml(file, root, indented) ==
    <<Line("decl", 0, XmlDeclaration, <<>>),
      Line("doctype", 0, IF doctype_line(file) = "" THEN DefaultDoctype
                         ELSE doctype_line(file), <<>>),
      BlankLine>>
    \o pretty_xml(root, indented)

(***************************************************************************)
(* A document is saved, then read back                                     *)
(***************************************************************************)
Manufacturer == E("Manufacturer", <<>>, <<>>)

\* the nested form of a program change
PatchMIDICommands(n) ==
    E("PatchMIDICommands", <<>>, <<E("ProgramChange", <<n>>, <<>>)>>)

\* a bank as a MIDNAM author writes it: capitalised ControlChange
\* attributes, patches in the attribute form, the nested form, and both
AuthoredBank ==
    E("PatchBank", <<"Authored">>,
      <<E("MIDICommands", <<>>,
          <<E("ControlChange", <<None, None, "0", "1">>, <<>>)>>),
        E("PatchNameList", <<>>,
          <<E("Patch", <<"Attr", "0", "3">>, <<>>),
            E("Patch", <<"Nested", "1">>, <<PatchMIDICommands("5")>>),
            E("Patch", <<"Both", "2", "7">>, <<PatchMIDICommands("5"), UsesNote("L1")>>),
            E("Patch", <<"Zero", "3", "0">>, <<PatchMIDICommands("4")>>)>>)>>)

\* a bank as _create_patch_bank writes it
WrittenBank ==
    E("PatchBank", <<"Written">>,
      <<E("MIDICommands", <<>>, <<E("ControlChange", <<"0", "2">>, <<>>)>>),
        E("PatchNameList", <<>>,
          <<E("Patch", <<"Plain", "0", "6">>, <<>>),
            E("Patch", <<"Bare", "1">>, <<>>)>>)>>)

ReadDocs ==
    {Document(<<Device(<<Manufacturer, ModelElem,
                         Cns("Set A", <<AFC1, AuthoredBank>>), NoteList("L1")>>)>>),
     Document(<<Device(<<Manufacturer, ModelElem,
                         Cns("Set A", <<AFC2, WrittenBank, E("PatchBank", <<"Ref">>, <<>>)>>),
                         Cns("Set B", <<AuthoredBank>>)>>)>>),
     Document(<<Device(<<ModelElem, Cns("Set A", <<AFC1, WrittenBank>>)>>)>>)}

ReadFiles ==
    {NoFile, MalformedFile}
    \cup {File(XmlDeclaration, DefaultDoctype, d) : d \in ReadDocs}
    \cup {File(XmlDeclaration, IndentedDoctype, DocA), File(TreeWriteDeclaration, "", DocB)}

ReadPayloads ==
    {NoPayload,
     Payload({"channelNameSets", "patchList"},
             <<NameSetEntry("Set A", TRUE, <<Chan(1, TRUE), Chan(2, FALSE)>>)>>,
             <<BankEntry("Bank 1", "Set A", <<CC(0, 1)>>,
                         <<PatchEntry("P1", "0", 0), PatchEntry("P2", "1", 5)>>)>>,
             <<>>, <<>>, "", FALSE, ""),
     Payload({"channelNameSets", "patchList"},
             <<NameSetEntry("Set A", TRUE, <<Chan(3, FALSE)>>),
               NameSetEntry("Set C", TRUE, <<Chan(1, TRUE)>>)>>,
             <<BankEntry("Bank 1", "Set A", <<>>, <<PatchEntry("P1", "0", 4)>>),
               BankEntry("Bank 2", "Set C", <<>>, <<>>),
               BankEntry("Bank 3", "Set A", <<>>, <<PatchEntry("P3", "2", 2)>>)>>,
             <<>>, <<>>, "", FALSE, ""),
     Payload({"note_lists"}, <<>>, <<>>,
             <<[name |-> "Drums", notes |-> <<[number |-> 3, name |-> "Kick"]>>]>>,
             <<>>, "", FALSE, ""),
     Payload({"channelNameSets", "activeControlListName"},
             <<NameSetEntry("Set A", FALSE, <<>>), NameSetEntry("Set B", FALSE, <<>>)>>,
             <<>>, <<>>, <<>>, "Controls", FALSE, "")}

ReadPatchRequests ==
    {PatchRequest(TRUE, TRUE, TRUE, "Authored", "", "Nested", "9", TRUE, "", <<>>),
     PatchRequest(TRUE, TRUE, TRUE, "Authored", "Both", "Renamed", "", TRUE, "L1",
                  <<[number |-> 3, name |-> "Kick"]>>),
     PatchRequest(TRUE, TRUE, TRUE, "Written", "", "Bare", "", TRUE, "", <<>>)}

InitRead ==
    /\ disk \in ReadFiles
    /\ backups = {}
    /\ now = 0
    /\ log = <<>>
    /\ out = NoOut
    /\ requests = NoRequests
    /\ PipeIdle

\* one save request: what the handler did, and the document before (tree0)
\* and after (tree) a successful save
Saved(handler, missing, o, answer) ==
    /\ stage = "idle"
    /\ disk' = o.disk
    /\ backups' = o.backups
    /\ log' = Append(log, Entry(handler, missing, o))
    /\ stage' = IF o.status = 200 THEN "saved" ELSE "failed"
    /\ tree0' = disk.root
    /\ tree' = o.disk.root
    /\ out' = answer
    /\ UNCHANGED <<now, fixes, requests>>

StructuralSave ==
    \E p \in ReadPayloads, indented \in BOOLEAN :
        LET o == save_midnam_structure([has_file_path |-> TRUE, midnam |-> p,
                                        strings_ok |-> TRUE], disk, backups, now)
        IN /\ midnam' = p
           /\ Saved("save_midnam_structure", p.keys = {}, o,
                    IF o.status = 200
                    THEN [handler |-> "save_midnam_structure", status |-> 200,
                          full_xml |-> full_xml(disk, o.disk.root, indented)]
                    ELSE [handler |-> "save_midnam_structure", status |-> o.status])

PatchSave ==
    \E r \in ReadPatchRequests :
        /\ midnam' = midnam
        /\ LET o == save_patch(r, disk, backups, now)
           IN Saved("save_patch", FALSE, o,
                    [handler |-> "save_patch", status |-> o.status])

ReloadMidnam ==
    /\ \E has_file_path \in BOOLEAN : out' = reload_midnam(has_file_path, disk)
    /\ UNCHANGED <<disk, backups, now, log, requests, pipeVars>>

ServeDeviceDetails ==
    /\ \E device_id_matches \in BOOLEAN :
          out' = serve_device_details(device_id_matches, disk)
    /\ UNCHANGED <<disk, backups, now, log, requests, pipeVars>>

NextRead == StructuralSave \/ PatchSave \/ ReloadMidnam \/ ServeDeviceDetails

SpecRead == InitRead /\ [][NextRead]_vars

\* the last save was a successful save_midnam_structure
StructureSaved ==
    /\ stage = "saved"
    /\ log[Len(log)].handler = "save_midnam_structure"

\* what a re-extraction has to yield for the payload's banks of one set
ExpectedBanks(p, n) ==
    LET wanted == PayloadBanksOf(p, n)
    IN [j \in 1..Len(wanted) |->
          [name |-> wanted[j].name,
           midi_commands |->
               [k \in 1..Len(wanted[j].midi_commands) |->
                   [type |-> wanted[j].midi_commands[k].type,
                    control |-> Str(wanted[j].midi_commands[k].control),
                    value |-> Str(wanted[j].midi_commands[k].value)]],
           patches |->
               [k \in 1..Len(wanted[j].patch) |->
                   [name |-> wanted[j].patch[k].name,
                    Number |-> wanted[j].patch[k].Number,
                    programChange |-> wanted[j].patch[k].programChange]]]]

\* what reload_midnam returned for the banks of one set, without the note
\* list names
ReloadedBanks(set) ==
    [j \in 1..Len(set.patch_banks) |->
        [name |-> set.patch_banks[j].name,
         midi_commands |-> set.patch_banks[j].midi_commands,
         patches |->
             [k \in 1..Len(set.patch_banks[j].patches) |->
                 [name |-> set.patch_banks[j].patches[k].name,
                  Number |-> set.patch_banks[j].patches[k].Number,
                  programChange |-> set.patch_banks[j].patches[k].programChange]]]]

ExpectedChannels(entry) ==
    [k \in 1..Len(entry.available_channels) |->
        [channel |-> Str(entry.available_channels[k].channel),
         available |-> entry.available_channels[k].available]]

\* C11: after a successful structural save whose payload carries
\* channelNameSets and patchList, reload_midnam of the written file succeeds
\* and yields, for every channel name set, the payload's available channels
\* and, for every bank, the payload's name, MIDI commands (type, control,
\* value) and patches (name, Number, programChange), in payload order.
C11_SaveReloadRoundTrip ==
    (/\ StructureSaved
     /\ {"channelNameSets", "patchList"} \subseteq midnam.keys
     /\ out.handler = "reload_midnam" /\ out.status # 400) =>
        /\ out.status = 200
        /\ \A i \in 1..Len(out.channel_name_sets) :
              LET set == out.channel_name_sets[i]
              IN /\ ReloadedBanks(set) = ExpectedBanks(midnam, set.name)
                 /\ \A j \in 1..Len(midnam.channelNameSets) :
                       (/\ midnam.channelNameSets[j].name = set.name
                        /\ midnam.channelNameSets[j].has_available_channels) =>
                           set.available_channels
                              = ExpectedChannels(midnam.channelNameSets[j])

\* the same round trip with the MIDI commands left out of the comparison
C11_RoundTripButCommands ==
    (/\ StructureSaved
     /\ {"channelNameSets", "patchList"} \subseteq midnam.keys
     /\ out.handler = "reload_midnam" /\ out.status = 200) =>
        \A i \in 1..Len(out.channel_name_sets) :
            LET set == out.channel_name_sets[i]
                got == ReloadedBanks(set)
                want == ExpectedBanks(midnam, set.name)
            IN /\ Len(got) = Len(want)
               /\ \A j \in 1..Len(got) :
                     got[j].name = want[j].name /\ got[j].patches = want[j].patches
               /\ \A j \in 1..Len(midnam.channelNameSets) :
                     (/\ midnam.channelNameSets[j].name = set.name
                      /\ midnam.channelNameSets[j].has_available_channels) =>
                         set.available_channels
                            = ExpectedChannels(midnam.channelNameSets[j])

\* the value a reader has to give for the program change of a Patch: the
\* attribute when it is there, otherwise the nested Number when it is there
ProgramChangeOf(patch) ==
    IF get(patch, "ProgramChange", None) # None THEN get(patch, "ProgramChange", None)
    ELSE IF find(patch, "PatchMIDICommands") # NoTree
            /\ find(find(patch, "PatchMIDICommands"), "ProgramChange") # NoTree
    THEN get(find(find(patch, "PatchMIDICommands"), "ProgramChange"), "Number", None)
    ELSE None

\* the Patch elements the readers list for the k-th listed bank of set i
ListedPatches(handler, root, i, k) ==
    LET set == Descendants(root, "ChannelNameSet")[i]
    IN IF handler = "reload_midnam"
       THEN findall(find(findall(set, "PatchBank")[k], "PatchNameList"), "Patch")
       ELSE Descendants(SelectSeq(findall(set, "PatchBank"),
                                  LAMBDA b : b.kids # <<>>)[k], "Patch")

\* C12: a reader (reload_midnam, serve_device_details) gives as the program
\* change of a Patch the value of its ProgramChange attribute whenever the
\* attribute is present, and the nested PatchMIDICommands/ProgramChange
\* Number only when the attribute is absent.
C12_AttributePreferred ==
    (out.handler \in {"reload_midnam", "serve_device_details"} /\ out.status = 200) =>
        \A i \in 1..Len(out.channel_name_sets) :
            \A k \in 1..Len(out.channel_name_sets[i].patch_banks) :
                LET read == out.channel_name_sets[i].patch_banks[k].patches
                    elems == ListedPatches(out.handler, disk.root, i, k)
                IN \A m \in 1..Len(read) :
                      ProgramChangeOf(elems[m]) # None =>
                          (IF out.handler = "reload_midnam"
                           THEN Str(read[m].programChange)
                           ELSE read[m].programChange) = ProgramChangeOf(elems[m])

\* what does hold of reload_midnam alone
C12_ReloadPrefersAttribute ==
    out.handler = "reload_midnam" => C12_AttributePreferred

\* a Patch that has the nested form of the program change only
NestedOnly(patch) ==
    /\ get(patch, "ProgramChange", None) = None
    /\ ProgramChangeOf(patch) # None

\* C13: after any successful save of a document that holds a Patch with no
\* ProgramChange attribute but a nested PatchMIDICommands/ProgramChange
\* Number=n, that patch carries ProgramChange=n as an attribute in the
\* written file.
C13_SaveWritesAttribute ==
    stage = "saved" =>
        \A i \in 1..Len(Descendants(tree0, "Patch")) :
            LET before == Descendants(tree0, "Patch")[i]
            IN NestedOnly(before) =>
                  \A j \in 1..Len(Descendants(disk.root, "Patch")) :
                      LET after == Descendants(disk.root, "Patch")[j]
                      IN get(after, "Name", "") = get(before, "Name", "") =>
                            get(after, "ProgramChange", None) = ProgramChangeOf(before)

\* C14: after any successful save (merge, then normalisation) no PatchBank is
\* a direct child of the device record, whichever sections the payload
\* carries.
C14_NoBankUnderDevice ==
    stage = "merged" =>
        \A d \in DeviceIdx(tree) : findall(tree.kids[d], "PatchBank") = <<>>

\* what does hold of the code: the banks under the device record are
\* deleted by a payload that has a patchList section
C14_NoBankUnderDeviceWithPatchList ==
    (stage = "merged" /\ "patchList" \in midnam.keys) => C14_NoBankUnderDevice

\* the place of a child of a ChannelNameSet in the DTD order
DtdRank(child) ==
    IF child.tag = "AvailableForChannels" THEN 1
    ELSE IF child.tag \in NoteRefTags THEN 2
    ELSE IF child.tag \in ControlRefTags THEN 3
    ELSE IF child.tag = "PatchBank" THEN 4
    ELSE 5

InDtdOrder(channel_name_set) ==
    \A i, j \in 1..Len(channel_name_set.kids) :
        i < j => DtdRank(channel_name_set.kids[i]) <= DtdRank(channel_name_set.kids[j])

\* C15: after normalisation of any document the direct children of every
\* ChannelNameSet stand in the order AvailableForChannels, note references,
\* control references, PatchBanks, every other element.
C15_ChildrenInDtdOrder ==
    stage \in {"pass1", "pass2"} =>
        \A i \in 1..Len(ChannelNameSets(tree)) : InDtdOrder(ChannelNameSets(tree)[i])

\* what does hold of the code: no reference is left after the first
\* PatchBank of a ChannelNameSet
C15_NoReferenceAfterBank ==
    stage \in {"pass1", "pass2"} =>
        \A i \in 1..Len(ChannelNameSets(tree)) :
            LET kids == ChannelNameSets(tree)[i].kids
            IN \A m, n \in 1..Len(kids) :
                  (m < n /\ kids[m].tag = "PatchBank") =>
                      kids[n].tag \notin (NoteRefTags \cup ControlRefTags)

\* the file before the last request
Loaded == log[Len(log)].pre

\* the DOCTYPE line a structural save has to write
ExpectedDoctypes ==
    IF Loaded.doctype = "" THEN {DefaultDoctype}
    ELSE {Loaded.doctype, IF Loaded.doctype = IndentedDoctype THEN CustomDoctype
                          ELSE Loaded.doctype}

\* C16: the file written by a successful structural save is the XML
\* declaration line, then one DOCTYPE line (the first line of the loaded file
\* that contains '<!DOCTYPE', otherwise the default MIDINameDocument 1.0
\* DOCTYPE), then the pretty-printed tree, with no blank lines.
C16_DeclarationDoctypeTree ==
    (out.handler = "save_midnam_structure" /\ out.status = 200) =>
        /\ Len(out.full_xml) >= 3
        /\ out.full_xml[1] = Line("decl", 0, XmlDeclaration, <<>>)
        /\ out.full_xml[2].kind = "doctype"
        /\ out.full_xml[2].tag \in ExpectedDoctypes
        /\ out.full_xml[3].kind \in {"open", "empty"}
        /\ out.full_xml[3].tag = disk.root.tag
        /\ \A k \in 3..Len(out.full_xml) :
              out.full_xml[k].kind \in {"open", "close", "empty"}

\* what does hold of the code: one blank line stands between the DOCTYPE
\* and the tree, and there is no other
C16_OneBlankLineAfterDoctype ==
    (out.handler = "save_midnam_structure" /\ out.status = 200) =>
        /\ Len(out.full_xml) >= 4
        /\ out.full_xml[1] = Line("decl", 0, XmlDeclaration, <<>>)
        /\ out.full_xml[2].kind = "doctype"
        /\ out.full_xml[2].tag \in ExpectedDoctypes
        /\ out.full_xml[3] = BlankLine
        /\ out.full_xml[4].kind \in {"open", "empty"}
        /\ out.full_xml[4].tag = disk.root.tag
        /\ \A k \in 4..Len(out.full_xml) :
              out.full_xml[k].kind \in {"open", "close", "empty"}

(***************************************************************************)
(* Two structural saves of the same path that interleave.  The handler     *)
(* takes no lock on the path (lines 472-743): between two of its file      *)
(* system calls another save of the same file can run.                     *)
(***************************************************************************)
Savers == {"first", "second"}

\* a file that open(file_path, 'w') has just truncated
EmptiedFile == [st |-> "empty", decl |-> "", doctype |-> "", root |-> NoTree]

\* a text written from the start of a file that holds a longer text: the
\* new text, then the end of the old one (root keeps the old document)
MixedFile(new, old) ==
    [st |-> "mixed", decl |-> new.decl, doctype |-> new.doctype, root |-> old.root]

\* the length of a text that a structural save wrote, in lines
TextLength(file) ==
    IF file.st \in {"ok", "mixed"} THEN Len(full_xml(file, file.root, FALSE)) ELSE 0

\* f.write(full_xml) on the file as it is now: the writer's own open has
\* truncated it, anything in it was written since, and the write starts at
\* offset 0 without truncating again
write(file, new) ==
    IF TextLength(file) > TextLength(new) THEN MixedFile(new, file) ELSE new

RacePayloads ==
    {Payload({"channelNameSets"}, <<>>, <<>>, <<>>, <<>>, "", FALSE, ""),
     Payload({"note_lists"}, <<>>, <<>>,
             <<[name |-> "Drums", notes |-> <<[number |-> 3, name |-> "Kick"]>>],
               [name |-> "Toms", notes |-> <<>>]>>,
             <<>>, "", FALSE, "")}

RaceFiles == {File(XmlDeclaration, CustomDoctype, DocA)}

NewRequest(p) ==
    [pc |-> "start", midnam |-> p, root |-> NoTree, doctype |-> "", loaded |-> NoFile,
     backup |-> -1, status |-> 0]

InitRace ==
    /\ disk \in RaceFiles
    /\ backups = {}
    /\ now = 0
    /\ log = <<>>
    /\ out = NoOut
    /\ requests \in [Savers -> {NewRequest(p) : p \in RacePayloads}]
    /\ PipeIdle

\* one file system call of the request s
Step(s, call, next) ==
    /\ requests' = [requests EXCEPT ![s] = next]
    /\ log' = Append(log, [saver |-> s, call |-> call])
    /\ UNCHANGED <<now, out, pipeVars>>

\* lines 493-499: os.path.exists and ET.parse
Parse(s) ==
    /\ requests[s].pc = "start"
    /\ Step(s, "parse",
            IF disk.st = "absent"
            THEN [requests[s] EXCEPT !.pc = "done", !.status = 404]
            ELSE IF disk.st # "ok"
            THEN [requests[s] EXCEPT !.pc = "done", !.status = 422]
            ELSE [requests[s] EXCEPT !.pc = "parsed", !.root = disk.root,
                                     !.loaded = disk])
    /\ UNCHANGED <<disk, backups>>

\* lines 502-510: the file is read a second time for its DOCTYPE line;
\* lines 512-699: the merge and the normalisation, in memory
ReadDoctype(s) ==
    /\ requests[s].pc = "parsed"
    /\ Step(s, "read",
            [requests[s] EXCEPT
                !.pc = "merged",
                !.doctype = doctype_line(disk),
                !.root = ensure_dtd_compliance(
                             merge_structure(requests[s].root, requests[s].midnam)).root])
    /\ UNCHANGED <<disk, backups>>

\* lines 701-703: the backup is a copy of the file as it is now
Backup(s) ==
    /\ requests[s].pc = "merged"
    /\ backups' = copy(backups, now, disk)
    /\ Step(s, "copy", [requests[s] EXCEPT !.pc = "copied", !.backup = Stamp(now)])
    /\ UNCHANGED disk

\* line 721: open(file_path, 'w')
Open(s) ==
    /\ requests[s].pc = "copied"
    /\ disk' = EmptiedFile
    /\ Step(s, "open", [requests[s] EXCEPT !.pc = "opened"])
    /\ UNCHANGED backups

\* lines 722-734: f.write(full_xml), the file is closed, 200 is answered
Write(s) ==
    /\ requests[s].pc = "opened"
    /\ disk' = write(disk, File(XmlDeclaration,
                                IF requests[s].doctype = "" THEN DefaultDoctype
                                ELSE requests[s].doctype,
                                requests[s].root))
    /\ Step(s, "write", [requests[s] EXCEPT !.pc = "done", !.status = 200])
    /\ UNCHANGED backups

NextRace ==
    \/ \E s \in Savers : Parse(s) \/ ReadDoctype(s) \/ Backup(s) \/ Open(s) \/ Write(s)
    \/ Tick

SpecRace == InitRace /\ [][NextRace]_vars

\* the calls of the two requests are not one request after the other
Interleaved ==
    \E i, j, k \in 1..Len(log) :
        i < j /\ j < k /\ log[i].saver = log[k].saver /\ log[j].saver # log[i].saver

\* the complete text a request has to write: what it loaded, merged with
\* its own payload
OutputOf(request) ==
    File(XmlDeclaration,
         IF request.loaded.doctype = "" THEN DefaultDoctype ELSE request.loaded.doctype,
         ensure_dtd_compliance(merge_structure(request.loaded.root, request.midnam)).root)

\* C17: when two structural saves of one path interleave and both succeed,
\* the file ends as the complete output of the request that wrote last
\* (computed from what that request loaded and its own payload, never a
\* mixture), and the backup of each request holds the content that was on
\* disk when that request loaded the document.
C17_LastWriteWinsOwnBackups ==
    (/\ Interleaved
     /\ \A s \in Savers : requests[s].pc = "done" /\ requests[s].status = 200) =>
        /\ disk = OutputOf(requests[log[Len(log)].saver])
        /\ \A s \in Savers :
              [ts |-> requests[s].backup, content |-> requests[s].loaded] \in backups

(***************************************************************************)
(* The availability block, the lists and the control reference after a     *)
(* merge                                                                   *)
(***************************************************************************)
\* the AvailableChannel children a payload entry asks for, as attributes
IncomingChannels(frontend_name_set) ==
    [k \in 1..Len(frontend_name_set.available_channels) |->
        <<Str(frontend_name_set.available_channels[k].channel),
          IF frontend_name_set.available_channels[k].available THEN "true" ELSE "false">>]

\* the children of the AvailableForChannels element of a ChannelNameSet, as
\* attributes (find: the first such element)
AvailabilityOf(channel_name_set) ==
    LET block == find(channel_name_set, "AvailableForChannels")
    IN [k \in 1..Len(block.kids) |-> <<block.kids[k].tag>> \o block.kids[k].a]

\* some ChannelNameSet of the entry's name holds the entry's channels and
\* nothing else in its availability block
Rewritten(master_device, frontend_name_set) ==
    \E i \in IdxOf(master_device.kids, "ChannelNameSet") :
        /\ NameOf(master_device.kids[i]) = frontend_name_set.name
        /\ find(master_device.kids[i], "AvailableForChannels") # NoTree
        /\ AvailabilityOf(master_device.kids[i])
               = [k \in 1..Len(frontend_name_set.available_channels) |->
                     <<"AvailableChannel">> \o IncomingChannels(frontend_name_set)[k]]

\* C18: for every payload channel-name-set entry that carries
\* available_channels, after the merge that set's AvailableForChannels
\* element holds exactly one AvailableChannel child per incoming pair, in
\* payload order, with Channel the pair's channel and Available 'true' or
\* 'false' by the pair's flag; no AvailableChannel from before remains.
C18_AvailabilityRewritten ==
    (stage = "merged" /\ "channelNameSets" \in midnam.keys) =>
        \A d \in DeviceIdx(tree), j \in 1..Len(midnam.channelNameSets) :
            midnam.channelNameSets[j].has_available_channels =>
                Rewritten(tree.kids[d], midnam.channelNameSets[j])

\* the entry j is the last of its name that carries available_channels
LastWithChannels(p, j) ==
    \A k \in (j + 1)..Len(p.channelNameSets) :
        ~(/\ p.channelNameSets[k].name = p.channelNameSets[j].name
          /\ p.channelNameSets[k].has_available_channels)

\* C18, amended: the same, for every entry that no later entry of the same
\* name carrying available_channels follows.
C18_LastEntryRewritten ==
    (stage = "merged" /\ "channelNameSets" \in midnam.keys) =>
        \A d \in DeviceIdx(tree), j \in 1..Len(midnam.channelNameSets) :
            (/\ midnam.channelNameSets[j].has_available_channels
             /\ LastWithChannels(midnam, j)) =>
                Rewritten(tree.kids[d], midnam.channelNameSets[j])

\* a merge rewrote the block of a set that had other channels before
C18_Witness ==
    /\ stage = "merged" /\ "channelNameSets" \in midnam.keys
    /\ \E d \in DeviceIdx(tree0), j \in 1..Len(midnam.channelNameSets) :
          /\ midnam.channelNameSets[j].has_available_channels
          /\ LastWithChannels(midnam, j)
          /\ \E i \in IdxOf(tree0.kids[d].kids, "ChannelNameSet") :
                /\ NameOf(tree0.kids[d].kids[i]) = midnam.channelNameSets[j].name
                /\ find(tree0.kids[d].kids[i], "AvailableForChannels") # NoTree
                /\ find(tree0.kids[d].kids[i], "AvailableForChannels").kids # <<>>
                /\ ~Rewritten(tree0.kids[d], midnam.channelNameSets[j])
          /\ Rewritten(tree.kids[d], midnam.channelNameSets[j])

\* the NoteNameList a payload entry asks for
IncomingNoteList(entry) ==
    E("NoteNameList", <<entry.name>>,
      [k \in 1..Len(entry.notes) |->
          E("Note", <<Str(entry.notes[k].number), entry.notes[k].name>>, <<>>)])

\* the ControlNameList a payload entry asks for
IncomingControlList(entry) ==
    E("ControlNameList", <<entry.name>>,
      [k \in 1..Len(entry.controls) |->
          E("Control", <<entry.controls[k].type, Str(entry.controls[k].number),
                         entry.controls[k].name>>, <<>>)])

IncomingNoteLists(p) == [j \in 1..Len(p.note_lists) |-> IncomingNoteList(p.note_lists[j])]
IncomingControlLists(p) ==
    [j \in 1..Len(p.control_lists) |-> IncomingControlList(p.control_lists[j])]

Rest(s, n) == SubSeq(s, n + 1, Len(s))

\* what does hold of the code: the direct-child NoteNameLists are one per
\* payload entry, in payload order, followed only by NoteNameLists that
\* stood inside a ChannelNameSet of the loaded document (the normalisation
\* moves them to the device record); the direct-child ControlNameLists are
\* exactly one per payload entry; no direct-child list from before the
\* merge remains.
C19_PayloadListsThenMovedLists ==
    stage = "merged" =>
        \A d \in DeviceIdx(tree) :
            /\ "note_lists" \in midnam.keys =>
                   LET lists == findall(tree.kids[d], "NoteNameList")
                       n == Len(midnam.note_lists)
                   IN /\ Len(lists) >= n
                      /\ SubSeq(lists, 1, n) = IncomingNoteLists(midnam)
                      /\ \A k \in 1..Len(Rest(lists, n)) :
                            \E m \in 1..Len(NestedNoteLists(tree0.kids[d])) :
                                Rest(lists, n)[k] = NestedNoteLists(tree0.kids[d])[m]
            /\ "control_lists" \in midnam.keys =>
                   findall(tree.kids[d], "ControlNameList") = IncomingControlLists(midnam)

\* the payload names an active control list
NamesActiveList(p) == "activeControlListName" \in p.keys /\ p.activeControlListName # ""

\* C20: after a merge whose payload names a non-empty
\* activeControlListName, every ChannelNameSet has exactly one
\* UsesControlNameList child: every UsesControlNameList it had before has
\* been removed, and the fresh one, whose Name is the payload's name, is the
\* child immediately after the set's AvailableForChannels element.
C20_OneFreshControlReference ==
    (stage = "merged" /\ NamesActiveList(midnam)) =>
        \A d \in DeviceIdx(tree) :
            \A i \in IdxOf(tree.kids[d].kids, "ChannelNameSet") :
                LET kids == tree.kids[d].kids[i].kids
                    uses == IdxOf(kids, "UsesControlNameList")
                    available_for_channels == IdxOf(kids, "AvailableForChannels")
                IN /\ Cardinality(uses) = 1
                   /\ \A u \in uses :
                         /\ NameOf(kids[u]) = midnam.activeControlListName
                         /\ available_for_channels # {} =>
                                u = Min(available_for_channels) + 1

\* what does hold of the code: every ChannelNameSet has a
\* UsesControlNameList child with the payload's name
C20_FreshControlReferencePresent ==
    (stage = "merged" /\ NamesActiveList(midnam)) =>
        \A d \in DeviceIdx(tree) :
            \A i \in IdxOf(tree.kids[d].kids, "ChannelNameSet") :
                \E u \in IdxOf(tree.kids[d].kids[i].kids, "UsesControlNameList") :
                    NameOf(tree.kids[d].kids[i].kids[u]) = midnam.activeControlListName

(***************************************************************************)
(* The SupportsStandardDeviceMode element after a merge                    *)
(***************************************************************************)
\* the payload enables the standard device mode (line 676)
EnablesStandardMode(p) ==
    "supportsStandardDeviceMode" \in p.keys /\ p.supportsStandardDeviceMode

\* C21: when the payload enables supportsStandardDeviceMode, the new
\* SupportsStandardDeviceMode element is inserted, for every order of the
\* device record's children, after the last Model child and before the
\* first CustomDeviceMode child, and at index 0 when the device record has
\* neither a Model nor a CustomDeviceMode child.
C21_AfterModelsBeforeCustomModes ==
    (stage = "merged" /\ EnablesStandardMode(midnam)) =>
        \A d \in DeviceIdx(tree) :
            LET kids == tree.kids[d].kids
                models == IdxOf(kids, "Model")
                customs == IdxOf(kids, "CustomDeviceMode")
            IN /\ IdxOf(kids, "SupportsStandardDeviceMode") # {}
               /\ \A i \in IdxOf(kids, "SupportsStandardDeviceMode") :
                     /\ \A m \in models : m < i
                     /\ \A c \in customs : i < c
                     /\ (models = {} /\ customs = {}) => i = 1

\* C21, amended: the element is inserted directly after the last Model
\* child that stands before the first CustomDeviceMode child (the last
\* Model child when there is no CustomDeviceMode), so before the first
\* CustomDeviceMode, and at index 0 when no Model stands there.
C21_AfterModelsAheadOfCustomModes ==
    (stage = "merged" /\ EnablesStandardMode(midnam)) =>
        \A d \in DeviceIdx(tree) :
            LET kids == tree.kids[d].kids
                customs == IdxOf(kids, "CustomDeviceMode")
                models == {m \in IdxOf(kids, "Model") : \A c \in customs : m < c}
            IN /\ IdxOf(kids, "SupportsStandardDeviceMode") # {}
               /\ \A i \in IdxOf(kids, "SupportsStandardDeviceMode") :
                     /\ \A c \in customs : i < c
                     /\ i = IF models = {} THEN 1 ELSE Max(models) + 1

\* the element was inserted in a device record where a Model follows the
\* first CustomDeviceMode
C21_Witness ==
    /\ stage = "merged" /\ EnablesStandardMode(midnam)
    /\ \E d \in DeviceIdx(tree) :
          LET kids == tree.kids[d].kids
          IN /\ \E m \in IdxOf(kids, "Model"), c \in IdxOf(kids, "CustomDeviceMode") : c < m
             /\ \E i \in IdxOf(kids, "SupportsStandardDeviceMode") :
                   /\ i > 1
                   /\ kids[i - 1].tag = "Model"

\* C22: after every merge the device record has at most one
\* SupportsStandardDeviceMode child: exactly one, whose Name is the
\* payload's standardDeviceModeName (default 'General MIDI'), when the
\* payload's supportsStandardDeviceMode flag is true, and none otherwise,
\* however many such elements the loaded document had.
C22_AtMostOneStandardMode ==
    stage = "merged" =>
        \A d \in DeviceIdx(tree) :
            findall(tree.kids[d], "SupportsStandardDeviceMode")
                = IF EnablesStandardMode(midnam)
                  THEN <<E("SupportsStandardDeviceMode",
                           <<IF "standardDeviceModeName" \in midnam.keys
                             THEN midnam.standardDeviceModeName ELSE "General MIDI">>,
                           <<>>)>>
                  ELSE <<>>

\* a merge that enables the mode met a device record that held two
\* SupportsStandardDeviceMode elements and left one
C22_Witness ==
    /\ stage = "merged" /\ EnablesStandardMode(midnam)
    /\ \E d \in DeviceIdx(tree) :
          /\ Len(findall(tree0.kids[d], "SupportsStandardDeviceMode")) = 2
          /\ Len(findall(tree.kids[d], "SupportsStandardDeviceMode")) = 1

(***************************************************************************)
(* The number returned by the normalisation                                *)
(***************************************************************************)
\* the children of a ChannelNameSet other than its NoteNameLists
KeptChildren(channel_name_set) ==
    SelectSeq(channel_name_set.kids, LAMBDA c : c.tag # "NoteNameList")

\* the ChannelNameSets of the document whose children the last pass put in
\* another order (the i-th set before the pass is the i-th set after it)
ReorderedSets ==
    {i \in 1..Len(ChannelNameSets(tree0)) :
        ChannelNameSets(tree)[i].kids # KeptChildren(ChannelNameSets(tree0)[i])}

\* the NoteNameList nodes the last pass moved out of ChannelNameSets
MovedNoteLists ==
    Concat([d \in 1..Len(tree0.kids) |->
               IF tree0.kids[d].tag = "MasterDeviceNames"
               THEN NestedNoteLists(tree0.kids[d]) ELSE <<>>])

\* C23: the number returned by normalisation equals the number of
\* individual fixes it applied: one for each NoteNameList node moved out of
\* a ChannelNameSet plus one for each ChannelNameSet whose children were
\* reordered, and nothing else is counted.
C23_CountIsMovedPlusReordered ==
    stage \in {"pass1", "pass2"} =>
        fixes[Len(fixes)] = Len(MovedNoteLists) + Cardinality(ReorderedSets)

\* what does hold of the code: one for each ChannelNameSet that held
\* NoteNameLists, one for each reordered ChannelNameSet and one more for
\* each of those that lost surplus note references
C23_CountIsLogEntries ==
    stage \in {"pass1", "pass2"} =>
        fixes[Len(fixes)] =
            Cardinality({i \in 1..Len(ChannelNameSets(tree0)) :
                            findall(ChannelNameSets(tree0)[i], "NoteNameList") # <<>>})
            + Cardinality(ReorderedSets)
            + Cardinality({i \in ReorderedSets :
                              Len(ChannelNameSets(tree)[i].kids)
                                  < Len(KeptChildren(ChannelNameSets(tree0)[i]))})

\* C24: when a document contains more than one MasterDeviceNames record,
\* the merge rewrites only the first device record found; every other
\* device record of the document is the same after the merge as before it.
C24_OnlyFirstDeviceRewritten ==
    (stage = "merged" /\ Cardinality(DeviceIdx(tree0)) > 1) =>
        /\ Len(tree.kids) = Len(tree0.kids)
        /\ \A d \in DeviceIdx(tree0) \ {Min(DeviceIdx(tree0))} :
              tree.kids[d] = tree0.kids[d]

(***************************************************************************)
(* One server process: socketserver.TCPServer (line 3057) takes a request, *)
(* runs its handler to the end on the same thread, then takes the next.    *)
(***************************************************************************)
\* a server that hands each request to a thread of its own
process_request_threading(rs, s) == rs[s].pc = "queued"

\* serve_forever with TCPServer: the request s is taken when no handler
\* is running
process_request(rs, s) ==
    /\ rs[s].pc = "queued"
    /\ \A o \in DOMAIN rs : rs[o].pc \in {"queued", "done"}

QueuedRequest(p) == [NewRequest(p) EXCEPT !.pc = "queued"]

InitServe ==
    /\ disk \in RaceFiles
    /\ backups = {}
    /\ now = 0
    /\ log = <<>>
    /\ out = NoOut
    /\ requests \in [Savers -> {QueuedRequest(p) : p \in RacePayloads}]
    /\ PipeIdle

\* do_POST is entered for the request s (lines 55-61)
Serve(s) ==
    /\ process_request(requests, s)
    /\ Step(s, "accept", [requests[s] EXCEPT !.pc = "start"])
    /\ UNCHANGED <<disk, backups>>

NextServe ==
    \/ \E s \in Savers :
          Serve(s) \/ Parse(s) \/ ReadDoctype(s) \/ Backup(s) \/ Open(s) \/ Write(s)
    \/ Tick

SpecServe == InitServe /\ [][NextServe]_vars

\* the requests whose handler is running
Running == {s \in Savers : requests[s].pc \notin {"queued", "done"}}

\* C25: within one server process requests are handled strictly one at a
\* time: the load, merge, normalize, backup and write steps of one save
\* request are never interleaved with any step of another request.
C25_OneRequestAtATime ==
    /\ Cardinality(Running) <= 1
    /\ ~Interleaved

\* two saves of the same file were both served to the end
C25_Witness ==
    /\ \A s \in Savers : requests[s].pc = "done" /\ requests[s].status = 200
    /\ \E k \in 1..(Len(log) - 1) : log[k].call = "write" /\ log[k + 1].call = "accept"

(***************************************************************************)
(* The DOCTYPE line through a sequence of saves                            *)
(***************************************************************************)
\* every request so far was a successful save by one of the handlers hs,
\* and the file had a DOCTYPE line before the first
SavedOnlyBy(hs) ==
    /\ log # <<>>
    /\ \A k \in 1..Len(log) : log[k].handler \in hs /\ log[k].status = 200
    /\ log[1].pre.doctype # ""

\* C26: the DOCTYPE of a document survives every save: for a document
\* whose file has a DOCTYPE line, after any sequence of successful saves
\* (structural saves and single-patch saves, in any order) the file still
\* carries that same DOCTYPE line (leading and trailing blanks apart).
C26_DoctypeSurvivesSaves ==
    SavedOnlyBy({"save_midnam_structure", "save_patch"}) =>
        Strip(disk.doctype) = Strip(log[1].pre.doctype)

\* what does hold of the code: the line survives structural saves
C26_DoctypeSurvivesStructuralSaves ==
    SavedOnlyBy({"save_midnam_structure"}) =>
        disk.doctype = Strip(log[1].pre.doctype)

(***************************************************************************)
(* Where a save puts the NoteNameLists it creates or moves                 *)
(***************************************************************************)
\* the last request was a successful save by one of the handlers hs
LastSavedBy(hs) ==
    /\ log # <<>>
    /\ log[Len(log)].handler \in hs
    /\ log[Len(log)].status = 200

\* the NoteNameList at this place of the written document stood in the
\* loaded one, under the same Name, inside an element of the same kind of
\* the same device record
StoodThere(path) ==
    \E k \in 1..Len(PathsTo(Loaded.root, "NoteNameList")) :
        LET old == PathsTo(Loaded.root, "NoteNameList")[k]
        IN /\ old[1] = path[1]
           /\ old[3] # 0
           /\ Loaded.root.kids[old[1]].kids[old[2]].tag
                  = disk.root.kids[path[1]].kids[path[2]].tag
           /\ NameOf(At(Loaded.root, old)) = NameOf(At(disk.root, path))

\* every NoteNameList of the written document that the save created or
\* moved is a direct child of a device record
NewNoteListsUnderDevice ==
    \A k \in 1..Len(PathsTo(disk.root, "NoteNameList")) :
        LET path == PathsTo(disk.root, "NoteNameList")[k]
        IN path[3] = 0 \/ StoodThere(path)

\* C27: every NoteNameList that a save creates or relocates is placed as a
\* direct child of the device record: the lists re-created by the
\* structural merge, the lists hoisted by normalisation, and the list that
\* save_patch creates when the requested note-list name does not yet exist
\* in the document.
C27_NoteListsUnderDevice ==
    LastSavedBy({"save_midnam_structure", "save_patch"}) => NewNoteListsUnderDevice

\* what does hold of the code: the lists of a structural save
C27_StructuralNoteListsUnderDevice ==
    LastSavedBy({"save_midnam_structure"}) => NewNoteListsUnderDevice

(***************************************************************************)
(* The same payload saved twice: lines 512-699 applied to the document the *)
(* first save wrote                                                        *)
(***************************************************************************)
MergeAgain ==
    /\ stage = "merged"
    /\ LET merged == ensure_dtd_compliance(merge_structure(tree, midnam))
       IN /\ tree' = merged.root
          /\ fixes' = Append(fixes, merged.fixes)
    /\ tree0' = tree
    /\ stage' = "merged twice"
    /\ UNCHANGED <<midnam, fsVars>>

NextResave == MergeStructure \/ MergeAgain

SpecResave == InitMerge /\ [][NextResave]_vars

\* C28: saving the same payload twice in succession is idempotent on the
\* document: for every starting document and payload, the tree written by
\* the second save (merge then normalisation, applied to the file the first
\* save wrote) equals the tree written by the first save.
C28_SecondSaveChangesNothing ==
    stage = "merged twice" => tree = tree0

\* what does hold of the code: the second save of a payload without
\* note_lists, control_lists and channelNameSets sections changes nothing
C28_SecondSaveOfOtherSections ==
    (/\ stage = "merged twice"
     /\ midnam.keys \cap {"note_lists", "control_lists", "channelNameSets"} = {})
        => tree = tree0

(***************************************************************************)
(* The Names of the NoteNameLists of a device record                       *)
(***************************************************************************)
\* no two elements of the sequence share a Name
DistinctNames(elems) ==
    \A i, j \in 1..Len(elems) : i # j => NameOf(elems[i]) # NameOf(elems[j])

\* C29: NoteNameList names stay unique through a save: after a successful
\* structural save whose payload carries note_lists with pairwise distinct
\* names, no two NoteNameList children of the written document's device
\* record share a Name, for every starting document whose NoteNameList
\* names are pairwise distinct, including documents that keep a
\* NoteNameList inside a ChannelNameSet.
C29_NoteListNamesUnique ==
    (/\ stage = "merged"
     /\ "note_lists" \in midnam.keys
     /\ \A i, j \in 1..Len(midnam.note_lists) :
            i # j => midnam.note_lists[i].name # midnam.note_lists[j].name
     /\ \A d \in DeviceIdx(tree0) :
            DistinctNames(findall(tree0.kids[d], "NoteNameList")
                          \o NestedNoteLists(tree0.kids[d]))) =>
        \A d \in DeviceIdx(tree) : DistinctNames(findall(tree.kids[d], "NoteNameList"))

\* what does hold of the code: the same, for a document that keeps no
\* NoteNameList inside a ChannelNameSet
C29_NoteListNamesUniqueUnlessNested ==
    (/\ stage = "merged"
     /\ "note_lists" \in midnam.keys
     /\ \A i, j \in 1..Len(midnam.note_lists) :
            i # j => midnam.note_lists[i].name # midnam.note_lists[j].name
     /\ \A d \in DeviceIdx(tree0) : NestedNoteLists(tree0.kids[d]) = <<>>) =>
        \A d \in DeviceIdx(tree) : DistinctNames(findall(tree.kids[d], "NoteNameList"))

(***************************************************************************)
(* What the normalisation keeps                                            *)
(***************************************************************************)
\* the children of a ChannelNameSet whose tag is in tags, in their order
OfKind(kids, tags) == SelectSeq(kids, LAMBDA c : c.tag \in tags)

\* the four buckets of the children of a ChannelNameSet, the last one by
\* the tags it does not hold
BucketTags ==
    {{"AvailableForChannels"}, NoteRefTags \cup ControlRefTags, {"PatchBank"}}

\* the five kinds of children that the reorder appends one after the other
KindTags ==
    {{"AvailableForChannels"}, NoteRefTags, ControlRefTags, {"PatchBank"}}

Others(kids) ==
    SelectSeq(kids, LAMBDA c :
        c.tag \notin {"AvailableForChannels", "PatchBank"}
                         \cup NoteRefTags \cup ControlRefTags)

\* the sequence without the note references that follow its first one
WithoutSurplusNoteRefs(kids) ==
    LET note_refs == {i \in 1..Len(kids) : kids[i].tag \in NoteRefTags}
    IN IF note_refs = {} THEN kids ELSE RemoveAt(kids, note_refs \ {Min(note_refs)})

\* the i-th ChannelNameSet kept its children of these tags, in their order,
\* but for the surplus note references when the pass reordered it
KeptInOrder(i, tags) ==
    OfKind(ChannelNameSets(tree)[i].kids, tags)
        = IF i \in ReorderedSets
          THEN WithoutSurplusNoteRefs(OfKind(KeptChildren(ChannelNameSets(tree0)[i]), tags))
          ELSE OfKind(KeptChildren(ChannelNameSets(tree0)[i]), tags)

\* the device records kept their children, the NoteNameLists moved out of
\* the ChannelNameSets standing once at the end
DevicesKept ==
    /\ Len(tree.kids) = Len(tree0.kids)
    /\ \A d \in DeviceIdx(tree0) :
          LET old == tree0.kids[d]
              new == tree.kids[d]
          IN /\ Len(new.kids) = Len(old.kids) + Len(NestedNoteLists(old))
             /\ SubSeq(new.kids, Len(old.kids) + 1, Len(new.kids)) = NestedNoteLists(old)
             /\ \A i \in 1..Len(old.kids) :
                   IF old.kids[i].tag = "ChannelNameSet"
                   THEN new.kids[i].tag = "ChannelNameSet" /\ new.kids[i].a = old.kids[i].a
                   ELSE new.kids[i] = old.kids[i]

====
